---------------------------- MODULE Spec2Model ----------------------------
(***************************************************************************)
(* The pluggable congestion-control engine: the BIC and CUBIC strategies   *)
(* of 计算机网络/拥塞控制, acting on one connection's SocketState, and the  *)
(* congestion-avoidance update of the Vegas strategy.                      *)
(*                                                                         *)
(* A behaviour is one connection: a strategy object as its constructor     *)
(* leaves it, a socket the transport layer has set up, and then any        *)
(* sequence of the calls the transport layer can make on the strategy.     *)
(*                                                                         *)
(* Numbers. All window quantities are uint32_t bytes in the source.  The   *)
(* inputs below keep every intermediate value under 2^31, so the uint32    *)
(* arithmetic is exact except where the source subtracts a larger unsigned *)
(* from a smaller one (BicDist) and where it goes through double           *)
(* (CubicBetaMul, CalculateK, CubicWindowCalculation); those are modelled  *)
(* by what the C++ computes.                                               *)
(***************************************************************************)
EXTENDS Integers, Sequences, FiniteSets, TLC

VARIABLES
    alg,        \* which strategy is bound to the connection: "BIC" or "CUBIC"
    hasSocket,  \* FALSE once the unique_ptr<SocketState> is null
    sock,       \* the SocketState record
    bic,        \* the BIC object's members
    cubic,      \* the Cubic object's members
    elapsed,    \* steady_clock::now() - m_epochStart, in milliseconds
    vegas,      \* the Vegas object's members (and the MSS it is handed)
    op,         \* history: the last call made and its arguments
    pre,        \* history: sock, bic, cubic, elapsed as they were before that call
    steps,      \* number of calls made so far
    divz,       \* what this build's integer division by zero does
    fault,      \* TRUE once a call has trapped (the process is gone)
    upload      \* the streaming uploader's run: its locals and the SDK calls made

vars == <<alg, hasSocket, sock, bic, cubic, elapsed, vegas, op, pre, steps, divz,
          fault, upload>>

-----------------------------------------------------------------------------
(* Bounds of the model *)

\* number of calls in a behaviour
MaxSteps == 2
\* largest segmentsAcked handed to IncreaseWindow / PktsAcked
MaxSegs == 2

\* MSS values of the connection (bytes)
MssSet == {1460, 10}
\* initial congestion window, in segments
InitSegs == {1, 4, 100, 1000}
\* RTT samples handed to PktsAcked / CongControl (microseconds)
RttSamples == {0, 100000, 100003}
\* how far the steady clock may have advanced when IncreaseWindow reads it (ms)
ClockAdvance == {0, 3000}
\* RTT arguments of CongControl: none (0) and one valid sample
CongControlRtt == {0, 100000}

-----------------------------------------------------------------------------
(* Enumerations *)

TCPState == {"SlowStart", "CongestionAvoidance", "Recovery", "Loss", "CWR"}

\* "Other" stands for every enumerator CwndEvent's switch sends to default
CongestionEvent == {"PacketLoss", "Timeout", "ECN", "FastRecovery", "Other"}

\* Integer division by zero is undefined in C++.  What a build does with it:
\* the divide instruction traps (x86: SIGFPE), or it yields 0 (AArch64 udiv),
\* or it yields all ones (RISC-V divu).
DivByZero == {"trap", "zero", "ones"}

Min(a, b) == IF a < b THEN a ELSE b
Max(a, b) == IF a > b THEN a ELSE b

-----------------------------------------------------------------------------
(* BIC *)

\* 0x7fffffff, the constructors' initial m_ssthresh
InitialSsThresh == 2147483647

BIC_maxCwnd == 65535
BIC_maxIncr == 32
BIC_minIncr == 1

BicInit ==
    [ m_ssthresh    |-> InitialSsThresh,
      m_cwnd        |-> 0,
      m_lastMaxCwnd |-> 0,
      m_lastCwnd    |-> 0,
      m_minWin      |-> 0,
      m_smoothPart  |-> 0,
      m_foundNewMax |-> FALSE,
      m_ackCount    |-> 0 ]

\* static_cast<uint32_t>(cwnd * 0.8): the double nearest 0.8 lies above 0.8 by
\* less than 2^-54, and cwnd * 0.8 is a multiple of 1/5, so the truncated
\* product is floor(8 * cwnd / 10) for every uint32 cwnd.
BicBetaMul(c) == (c * 8) \div 10

\* GetSsThresh as it would be without its floor of two segments
BIC_GetSsThresh_NoFloor(s, b) ==
    LET ss == BicBetaMul(s.cwnd_)
    IN  [ sock |-> [s EXCEPT !.ssthresh_ = ss],
          bic  |-> [b EXCEPT !.m_lastMaxCwnd = s.cwnd_, !.m_ssthresh = ss] ]

\* GetSsThresh with a non-null socket: returns the new socket and object.
BIC_GetSsThresh(s, b) ==
    LET ss == Max(BicBetaMul(s.cwnd_), 2 * s.mss_bytes_)
    IN  [ sock |-> [s EXCEPT !.ssthresh_ = ss],
          bic  |-> [b EXCEPT !.m_lastMaxCwnd = s.cwnd_, !.m_ssthresh = ss] ]

\* SlowStart as it would be without the stop at m_ssthresh
BIC_SlowStart_Uncapped(b, mss, n) == Min(b.m_cwnd + n * mss, BIC_maxCwnd)

BIC_SlowStart(b, mss, n) ==
    LET newCwnd == b.m_cwnd + n * mss
        capped  == IF newCwnd > b.m_ssthresh THEN b.m_ssthresh ELSE newCwnd
    IN  Min(capped, BIC_maxCwnd)

\* FastRecovery as it would be if the inflated window stopped at ssthresh
BIC_FastRecovery_UpToSsthresh(b, mss, n) ==
    Min(Min(b.m_cwnd + n * mss, Max(b.m_ssthresh, b.m_cwnd)), BIC_maxCwnd)

BIC_FastRecovery(b, mss, n) == Min(b.m_cwnd + n * mss, BIC_maxCwnd)

\* int32_t dist = (targetWin - m_cwnd) / mss; the subtraction and the division
\* are uint32_t, the result is then read as int32_t.  With targetWin < m_cwnd
\* the difference wraps to 2^32 - d.  2^32 - d = 2*(2^31 - 1) + 2 - d.
BicDist(targetWin, cwnd, mss) ==
    IF mss = 0
    THEN (IF divz = "ones" THEN -1 ELSE 0)  \* int32_t(0xFFFFFFFF) = -1
    ELSE IF targetWin >= cwnd
    THEN (targetWin - cwnd) \div mss
    ELSE LET d == cwnd - targetWin
             A == 2147483647
         IN  IF mss = 1
             THEN -d
             ELSE 2 * (A \div mss) + ((2 * (A % mss) + 2 - d) \div mss)

\* BicUpdate as it would be if the binary-search increment were the whole
\* distance instead of half of it
BicUpdate_WholeDistance(b0, mss) ==
    LET b == [b0 EXCEPT !.m_ackCount = @ + 1]
        targetWin == IF ~b.m_foundNewMax \/ b.m_lastMaxCwnd = 0
                     THEN b.m_cwnd + BIC_maxIncr * mss
                     ELSE b.m_lastMaxCwnd
        dist == BicDist(targetWin, b.m_cwnd, mss)
        grown ==
            IF dist > BIC_maxIncr
            THEN [b EXCEPT !.m_cwnd = @ + BIC_maxIncr * mss]
            ELSE IF dist > 0
            THEN [b EXCEPT !.m_cwnd = @ + dist * mss]
            ELSE LET b1 == IF ~b.m_foundNewMax
                           THEN [b EXCEPT !.m_foundNewMax = TRUE,
                                          !.m_lastMaxCwnd = b.m_cwnd]
                           ELSE b
                 IN  IF b1.m_cwnd < b1.m_lastMaxCwnd + BIC_maxIncr * mss
                     THEN [b1 EXCEPT !.m_cwnd = @ + BIC_minIncr * mss]
                     ELSE [b1 EXCEPT !.m_cwnd = @ + BIC_maxIncr * mss,
                                     !.m_lastMaxCwnd = b1.m_cwnd + BIC_maxIncr * mss]
    IN  IF grown.m_cwnd < grown.m_minWin
        THEN [grown EXCEPT !.m_cwnd = grown.m_minWin]
        ELSE grown

\* BicUpdate as it would be if the remembered maximum were the target
\* whenever there is one, found flag or not
BicUpdate_TowardLastMax(b0, mss) ==
    LET b == [b0 EXCEPT !.m_ackCount = @ + 1]
        targetWin == IF b.m_lastMaxCwnd = 0
                     THEN b.m_cwnd + BIC_maxIncr * mss
                     ELSE b.m_lastMaxCwnd
        dist == BicDist(targetWin, b.m_cwnd, mss)
        grown ==
            IF dist > BIC_maxIncr
            THEN [b EXCEPT !.m_cwnd = @ + BIC_maxIncr * mss]
            ELSE IF dist > 0
            THEN LET half == (dist \div 2) * mss
                     increment == IF dist > BIC_minIncr
                                  THEN (IF half < BIC_minIncr * mss
                                        THEN BIC_minIncr * mss ELSE half)
                                  ELSE BIC_minIncr * mss
                 IN  [b EXCEPT !.m_cwnd = @ + increment]
            ELSE LET b1 == IF ~b.m_foundNewMax
                           THEN [b EXCEPT !.m_foundNewMax = TRUE,
                                          !.m_lastMaxCwnd = b.m_cwnd]
                           ELSE b
                 IN  IF b1.m_cwnd < b1.m_lastMaxCwnd + BIC_maxIncr * mss
                     THEN [b1 EXCEPT !.m_cwnd = @ + BIC_minIncr * mss]
                     ELSE [b1 EXCEPT !.m_cwnd = @ + BIC_maxIncr * mss,
                                     !.m_lastMaxCwnd = b1.m_cwnd + BIC_maxIncr * mss]
    IN  IF grown.m_cwnd < grown.m_minWin
        THEN [grown EXCEPT !.m_cwnd = grown.m_minWin]
        ELSE grown

\* BicUpdate: the member record after one call.
BicUpdate(b0, mss) ==
    LET b == [b0 EXCEPT !.m_ackCount = @ + 1]
        targetWin == IF ~b.m_foundNewMax \/ b.m_lastMaxCwnd = 0
                     THEN b.m_cwnd + BIC_maxIncr * mss
                     ELSE b.m_lastMaxCwnd
        dist == BicDist(targetWin, b.m_cwnd, mss)
        grown ==
            IF dist > BIC_maxIncr
            THEN [b EXCEPT !.m_cwnd = @ + BIC_maxIncr * mss]
            ELSE IF dist > 0
            THEN LET half == (dist \div 2) * mss
                     increment == IF dist > BIC_minIncr
                                  THEN (IF half < BIC_minIncr * mss
                                        THEN BIC_minIncr * mss ELSE half)
                                  ELSE BIC_minIncr * mss
                 IN  [b EXCEPT !.m_cwnd = @ + increment]
            ELSE LET b1 == IF ~b.m_foundNewMax
                           THEN [b EXCEPT !.m_foundNewMax = TRUE,
                                          !.m_lastMaxCwnd = b.m_cwnd]
                           ELSE b
                 IN  IF b1.m_cwnd < b1.m_lastMaxCwnd + BIC_maxIncr * mss
                     THEN [b1 EXCEPT !.m_cwnd = @ + BIC_minIncr * mss]
                     ELSE [b1 EXCEPT !.m_cwnd = @ + BIC_maxIncr * mss,
                                     !.m_lastMaxCwnd = b1.m_cwnd + BIC_maxIncr * mss]
    IN  IF grown.m_cwnd < grown.m_minWin
        THEN [grown EXCEPT !.m_cwnd = grown.m_minWin]
        ELSE grown

\* IncreaseWindow as it would be without the final std::min with m_maxCwnd
BIC_IncreaseWindow_NoCap(s, b0, n) ==
    IF n = 0 THEN [sock |-> s, bic |-> b0]
    ELSE
    LET b == [b0 EXCEPT !.m_cwnd = s.cwnd_, !.m_ssthresh = s.ssthresh_]
        b1 == IF s.tcp_state_ = "Recovery"
              THEN [b EXCEPT !.m_cwnd = BIC_FastRecovery(b, s.mss_bytes_, n)]
              ELSE IF b.m_cwnd < b.m_ssthresh
              THEN [b EXCEPT !.m_cwnd = BIC_SlowStart(b, s.mss_bytes_, n)]
              ELSE BicUpdate(b, s.mss_bytes_)
    IN  [sock |-> [s EXCEPT !.cwnd_ = b1.m_cwnd], bic |-> b1]

BIC_IncreaseWindow(s, b0, n) ==
    IF n = 0 THEN [sock |-> s, bic |-> b0]
    ELSE
    LET b == [b0 EXCEPT !.m_cwnd = s.cwnd_, !.m_ssthresh = s.ssthresh_]
        b1 == IF s.tcp_state_ = "Recovery"
              THEN [b EXCEPT !.m_cwnd = BIC_FastRecovery(b, s.mss_bytes_, n)]
              ELSE IF b.m_cwnd < b.m_ssthresh
              THEN [b EXCEPT !.m_cwnd = BIC_SlowStart(b, s.mss_bytes_, n)]
              ELSE BicUpdate(b, s.mss_bytes_)
        b2 == [b1 EXCEPT !.m_cwnd = Min(@, BIC_maxCwnd)]
    IN  [sock |-> [s EXCEPT !.cwnd_ = b2.m_cwnd], bic |-> b2]

\* IncreaseWindow reaches the division of BicUpdate with mss = 0
BIC_DividesByZero(s, n) ==
    /\ n # 0
    /\ s.tcp_state_ # "Recovery"
    /\ ~(s.cwnd_ < s.ssthresh_)
    /\ s.mss_bytes_ = 0

\* the RTT bookkeeping as it would be with the weights 7/8 and 1/8
RttUpdate_Eighths(s, rtt) ==
    LET var == IF s.rtt_var_ = 0 THEN rtt \div 2 ELSE (7 * s.rtt_var_ + rtt) \div 8
    IN  [s EXCEPT !.rtt_us_ = rtt, !.rtt_var_ = var, !.rto_us_ = rtt + 4 * var]

\* the RTT bookkeeping PktsAcked does on the socket (the same in BIC and Cubic)
RttUpdate(s, rtt) ==
    LET var == IF s.rtt_var_ = 0 THEN rtt \div 2 ELSE (3 * s.rtt_var_ + rtt) \div 4
    IN  [s EXCEPT !.rtt_us_ = rtt, !.rtt_var_ = var, !.rto_us_ = rtt + 4 * var]

BIC_PktsAcked(s, b, n, rtt) ==
    [sock |-> RttUpdate(s, rtt), bic |-> [b EXCEPT !.m_ackCount = @ + n]]

BIC_CongestionStateSet(s0, b, st) ==
    LET s == [s0 EXCEPT !.tcp_state_ = st]
    IN  IF st \in {"Recovery", "Loss"}
        THEN LET g == BIC_GetSsThresh(s, b)
             IN  [sock |-> g.sock,
                  bic  |-> [g.bic EXCEPT !.m_minWin = g.bic.m_ssthresh,
                                         !.m_foundNewMax = FALSE]]
        ELSE [sock |-> s, bic |-> b]

\* BicReset as it would be if it kept the remembered maximum
BicReset_KeepMaximum(b) ==
    [b EXCEPT !.m_lastCwnd = 0, !.m_minWin = 0,
              !.m_foundNewMax = FALSE, !.m_ackCount = 0, !.m_smoothPart = 0]

BicReset(b) ==
    [b EXCEPT !.m_lastMaxCwnd = 0, !.m_lastCwnd = 0, !.m_minWin = 0,
              !.m_foundNewMax = FALSE, !.m_ackCount = 0, !.m_smoothPart = 0]

\* CwndEvent, case PacketLoss / Timeout, up to the if on the event: the
\* remembered maximum, the reduction, m_minWin and the flag
BIC_LossReduction(s, b0) ==
    LET b1 == IF s.cwnd_ > b0.m_lastMaxCwnd
              THEN [b0 EXCEPT !.m_lastMaxCwnd = s.cwnd_] ELSE b0
        g  == BIC_GetSsThresh(s, b1)
    IN  [sock |-> g.sock,
         bic  |-> [g.bic EXCEPT !.m_minWin = g.bic.m_ssthresh,
                                !.m_foundNewMax = FALSE]]

\* the Timeout branch as it would be if it restarted from the reduced window
BIC_TimeoutBranch_KeepWindow(s, b) ==
    [sock |-> [s EXCEPT !.cwnd_ = s.ssthresh_, !.tcp_state_ = "Loss"],
     bic  |-> [b EXCEPT !.m_cwnd = s.ssthresh_, !.m_lastMaxCwnd = 0,
                        !.m_lastCwnd = 0, !.m_minWin = 0, !.m_foundNewMax = FALSE,
                        !.m_ackCount = 0, !.m_smoothPart = 0]]

\* the Timeout branch, BicReset() included
BIC_TimeoutBranch(s, b) ==
    [sock |-> [s EXCEPT !.cwnd_ = s.mss_bytes_, !.tcp_state_ = "Loss"],
     bic  |-> BicReset([b EXCEPT !.m_cwnd = s.mss_bytes_])]

\* the fast-retransmit branch
BIC_RecoveryBranch(s, b) ==
    [sock |-> [s EXCEPT !.cwnd_ = b.m_ssthresh, !.tcp_state_ = "Recovery"],
     bic  |-> [b EXCEPT !.m_cwnd = b.m_ssthresh]]

\* case ECN
BIC_EcnBranch(s, b) ==
    LET g == BIC_GetSsThresh(s, b)
    IN  [sock |-> [g.sock EXCEPT !.cwnd_ = g.bic.m_ssthresh,
                                 !.tcp_state_ = "CWR"],
         bic  |-> [g.bic EXCEPT !.m_cwnd = g.bic.m_ssthresh,
                                !.m_minWin = g.bic.m_ssthresh,
                                !.m_foundNewMax = FALSE]]

BIC_CwndEvent(s0, b0, ev) ==
    LET s == [s0 EXCEPT !.congestion_event_ = ev]
    IN  CASE ev \in {"PacketLoss", "Timeout"} ->
               LET g == BIC_LossReduction(s, b0)
                   r == IF ev = "Timeout"
                        THEN BIC_TimeoutBranch(g.sock, g.bic)
                        ELSE BIC_RecoveryBranch(g.sock, g.bic)
               IN  [sock |-> r.sock, bic |-> [r.bic EXCEPT !.m_ackCount = 0]]
          [] ev = "ECN" -> BIC_EcnBranch(s, b0)
          [] ev = "FastRecovery" ->
               [sock |-> [s EXCEPT !.tcp_state_ = "Recovery"], bic |-> b0]
          [] OTHER -> [sock |-> s, bic |-> b0]

BIC_CongControl(s, b, ev, rtt) ==
    LET e == BIC_CwndEvent(s, b, ev)
    IN  IF rtt > 0 THEN BIC_PktsAcked(e.sock, e.bic, 1, rtt) ELSE e

-----------------------------------------------------------------------------
(* Cubic *)

Cubic_maxCwnd == 65535
\* m_hystartAckDelta
HystartAckDelta == 2
\* 0xFFFFFFFF, the initial m_delayMin / m_hystartDelayMin.  It is only ever
\* compared with RTT samples and overwritten by them; it is held here as the
\* largest representable number, above every sample.
DelayUnset == 2147483647

CubicInit(fc) ==
    [ m_ssthresh        |-> InitialSsThresh,
      m_cwnd            |-> 0,
      m_lastMaxCwnd     |-> 0,
      m_lastCwnd        |-> 0,
      m_k               |-> 0,
      m_fastConvergence |-> fc,
      m_tcpFriendly     |-> TRUE,
      m_tcpCwnd         |-> 0,
      m_lastTime        |-> 0,
      m_ackCount        |-> 0,
      m_cntRtt          |-> 0,
      m_delayMin        |-> DelayUnset,
      m_hystartEnabled  |-> TRUE,
      m_hystartDelayMin |-> DelayUnset,
      m_hystartDelayMax |-> 0 ]

\* <<q, r>> with a * b = q * c + r and 0 <= r < c, by long multiplication
\* over the octal digits of b, so that no intermediate value leaves 31 bits
\* (c < 2^31 / 15).
RECURSIVE MulDivMod(_, _, _)
MulDivMod(a, b, c) ==
    IF b = 0 THEN <<0, 0>>
    ELSE LET h == MulDivMod(a, b \div 8, c)
             x == 8 * h[2] + (b % 8) * (a % c)
             y == 8 * h[1] + (b % 8) * (a \div c)
         IN  <<y + (x \div c), x % c>>

\* largest power of two that is <= x (x >= 1)
RECURSIVE Pow2Floor(_)
Pow2Floor(x) == IF x < 2 THEN 1 ELSE 2 * Pow2Floor(x \div 2)

\* static_cast<uint32_t>(cwnd * 0.7).  The double nearest 0.7 is
\* 0.7 - 0.4 * 2^-53.  When 0.7 * cwnd has a fractional part the truncated
\* product is floor(7 * cwnd / 10).  When cwnd = 10 j the exact product is
\* 7 j - 4 j * 2^-53; it rounds (to nearest, ties to even) to the double below
\* 7 j exactly when 4 j exceeds the largest power of two P <= 7 j, and then
\* truncates to 7 j - 1.  (90 -> 62, 1460 -> 1021, 5840 -> 4087.)
CubicBetaMul(c) ==
    IF c > 0 /\ c % 10 = 0 /\ 4 * (c \div 10) > Pow2Floor((7 * c) \div 10)
    THEN (7 * c) \div 10 - 1
    ELSE (7 * c) \div 10

\* the fast-convergence factor as it would be with beta in place of (2 - beta) / 2
FastConvergenceMul_Beta(c) == (7 * c) \div 10

\* static_cast<uint32_t>(cwnd * (2.0 - 0.7) / 2.0): 2.0 - 0.7 is the double
\* 1.3 + 0.4 * 2^-53, the product is a multiple of 1/20 plus less than one
\* ulp, so the truncation is floor(13 * cwnd / 20).
FastConvergenceMul(c) == (13 * c) \div 20

\* K^3 = (W_max / 1460) * (1 - 0.7) / 0.4 seconds^3, i.e. with k in
\* milliseconds 73 * k^3 = 37500000 * W_max = 3 * KDen * W_max.
KDen == 12500000
KNum == 73

\* k milliseconds is not past K:  73 k^3 <= 3 * KDen * W_max
NotPastK(k, wmax) ==
    LET m == MulDivMod(k * k, k, KDen)
        f == KNum * m[2]
        q == KNum * m[1] + (f \div KDen)
    IN  q < 3 * wmax \/ (q = 3 * wmax /\ f % KDen = 0)

\* floor(cbrt(w)) by bisection: the largest x in lo..(hi - 1) with x^3 <= w,
\* given lo^3 <= w < hi^3
RECURSIVE CubeRoot(_, _, _)
CubeRoot(w, lo, hi) ==
    IF hi - lo <= 1 THEN lo
    ELSE LET mid == (lo + hi) \div 2
         IN  IF mid * mid * mid <= w
             THEN CubeRoot(w, mid, hi) ELSE CubeRoot(w, lo, mid)

\* the largest k in lo..(hi - 1) that is not past K, by bisection
RECURSIVE LastNotPastK(_, _, _)
LastNotPastK(wmax, lo, hi) ==
    IF hi - lo <= 1 THEN lo
    ELSE LET mid == (lo + hi) \div 2
         IN  IF NotPastK(mid, wmax)
             THEN LastNotPastK(wmax, mid, hi) ELSE LastNotPastK(wmax, lo, mid)

\* CalculateK: m_k = cbrt(W_max * 0.3 / (1460 * 0.4)), held in whole
\* milliseconds (the resolution of the elapsed time CubicUpdate compares it
\* with); the double's further digits are dropped.  With s = floor(cbrt(W_max)),
\* 80^3 s^3 <= 37500000/73 * W_max < 81^3 (s + 1)^3 brackets the root.
CalculateK(wmax) ==
    IF wmax = 0 THEN 0
    ELSE LET s == CubeRoot(wmax, 0, 1291)
         IN  LastNotPastK(wmax, 80 * s, 81 * (s + 1))

\* C * 1460 * (dt / 1000)^3 = 0.4 * 1460 * dt^3 / 10^9 = 73 * dt^3 / 125000000
CubicNum == 73
CubicDen == 125000000

\* CubicWindowCalculation as it would be with the time taken from the start
\* of the epoch instead of from K
CubicWindowCalculation_FromEpoch(c, t) ==
    LET m == MulDivMod(t * t, CubicNum * t, CubicDen)
    IN  c.m_lastMaxCwnd + m[1]

\* CubicWindowCalculation(t) for t and m_k in milliseconds:
\* static_cast<uint32_t>(W_max + C (t - K)^3 * 1460), 0 when negative.
CubicWindowCalculation(c, t) ==
    LET dt == t - c.m_k
        n  == IF dt < 0 THEN -dt ELSE dt
        m  == MulDivMod(n * n, CubicNum * n, CubicDen)
        target == IF dt >= 0
                  THEN c.m_lastMaxCwnd + m[1]
                  ELSE c.m_lastMaxCwnd - m[1] - (IF m[2] > 0 THEN 1 ELSE 0)
    IN  IF target < 0 THEN 0 ELSE target

\* static_cast<uint32_t>(W_max * (1 - 0.7) + (3 * 0.7 / (2 - 0.7)) * (t / rtt) * mss)
\* = floor(3 W_max / 10 + 21000 * t_ms * mss / (13 * rtt_us))
TcpEstimate(c, s, t) ==
    LET a  == 3 * c.m_lastMaxCwnd
        m  == MulDivMod(21000 * t, s.mss_bytes_, 13 * s.rtt_us_)
        fr == (a % 10) * 13 * s.rtt_us_ + 10 * m[2]
    IN  (a \div 10) + m[1] + (IF fr >= 130 * s.rtt_us_ THEN 1 ELSE 0)

Cubic_GetSsThresh(s, c) ==
    LET wmax == IF c.m_fastConvergence /\ s.cwnd_ < c.m_lastMaxCwnd
                THEN FastConvergenceMul(s.cwnd_)
                ELSE s.cwnd_
        ss   == Max(CubicBetaMul(s.cwnd_), 2 * s.mss_bytes_)
    IN  [ sock  |-> [s EXCEPT !.ssthresh_ = ss],
          cubic |-> [c EXCEPT !.m_lastCwnd = s.cwnd_,
                              !.m_lastMaxCwnd = wmax,
                              !.m_ssthresh = ss,
                              !.m_k = CalculateK(wmax)] ]

\* SlowStart as it would be without the ssthresh bound
Cubic_SlowStart_Uncapped(c, mss, n) ==
    [c EXCEPT !.m_cwnd = Min(c.m_cwnd + n * mss, Cubic_maxCwnd)]

\* SlowStart: the member record with m_cwnd already assigned the returned value
Cubic_SlowStart(c, mss, n) ==
    LET newCwnd == c.m_cwnd + n * mss
    IN  IF newCwnd > c.m_ssthresh
        THEN [c EXCEPT !.m_cwnd = Min(c.m_ssthresh, Cubic_maxCwnd),
                       !.m_hystartDelayMin = DelayUnset,
                       !.m_hystartDelayMax = 0]
        ELSE [c EXCEPT !.m_cwnd = Min(newCwnd, Cubic_maxCwnd)]

Cubic_FastRecovery(c, mss, n) == Min(c.m_cwnd + n * mss, Cubic_maxCwnd)

\* the growth target as it would be if the TCP estimate were computed and
\* stored but never adopted
CubicTarget_CubicOnly(c, s, t) ==
    LET w == CubicWindowCalculation(c, t)
    IN  IF c.m_tcpFriendly /\ s.rtt_us_ > 0
        THEN [target |-> w, tcpCwnd |-> TcpEstimate(c, s, t)]
        ELSE [target |-> w, tcpCwnd |-> c.m_tcpCwnd]

\* the growth target CubicUpdate settles on, and the m_tcpCwnd it leaves
CubicTarget(c, s, t) ==
    LET w == CubicWindowCalculation(c, t)
    IN  IF c.m_tcpFriendly /\ s.rtt_us_ > 0
        THEN LET tcp == TcpEstimate(c, s, t)
             IN  [target |-> Max(w, tcp), tcpCwnd |-> tcp]
        ELSE [target |-> w, tcpCwnd |-> c.m_tcpCwnd]

\* CubicUpdate as it would be if a step below the target moved the window
\* onto the target
CubicUpdate_Jump(c0, s, t) ==
    LET c   == [c0 EXCEPT !.m_ackCount = @ + 1]
        tg  == CubicTarget(c, s, t)
        c1  == [c EXCEPT !.m_tcpCwnd = tg.tcpCwnd]
        mss == s.mss_bytes_
        cnt == IF tg.target > c1.m_cwnd
               THEN Max(c1.m_cwnd \div (tg.target - c1.m_cwnd), 1)
               ELSE IF mss = 0
               THEN (IF divz = "ones" THEN DelayUnset ELSE 0)
               ELSE c1.m_cwnd \div mss
        c2  == IF c1.m_ackCount >= cnt
               THEN [c1 EXCEPT !.m_cwnd = IF tg.target > @ THEN tg.target ELSE @ + mss,
                               !.m_ackCount = 0]
               ELSE c1
    IN  [c2 EXCEPT !.m_lastTime = t]

CubicUpdate(c0, s, t) ==
    LET c   == [c0 EXCEPT !.m_ackCount = @ + 1]
        tg  == CubicTarget(c, s, t)
        c1  == [c EXCEPT !.m_tcpCwnd = tg.tcpCwnd]
        mss == s.mss_bytes_
        cnt == IF tg.target > c1.m_cwnd
               THEN Max(c1.m_cwnd \div (tg.target - c1.m_cwnd), 1)
               ELSE IF mss = 0
               THEN (IF divz = "ones" THEN DelayUnset ELSE 0)
               ELSE c1.m_cwnd \div mss
        c2  == IF c1.m_ackCount >= cnt
               THEN [c1 EXCEPT !.m_cwnd = @ + mss, !.m_ackCount = 0]
               ELSE c1
    IN  [c2 EXCEPT !.m_lastTime = t]

Cubic_IncreaseWindow(s, c0, n, t) ==
    IF n = 0 THEN [sock |-> s, cubic |-> c0]
    ELSE
    LET c == [c0 EXCEPT !.m_cwnd = s.cwnd_, !.m_ssthresh = s.ssthresh_]
        c1 == IF s.tcp_state_ = "Recovery"
              THEN [c EXCEPT !.m_cwnd = Cubic_FastRecovery(c, s.mss_bytes_, n)]
              ELSE IF c.m_cwnd < c.m_ssthresh
              THEN Cubic_SlowStart(c, s.mss_bytes_, n)
              ELSE CubicUpdate(c, s, t)
        c2 == [c1 EXCEPT !.m_cwnd = Min(@, Cubic_maxCwnd)]
    IN  [sock |-> [s EXCEPT !.cwnd_ = c2.m_cwnd], cubic |-> c2]

\* IncreaseWindow reaches the division m_cwnd / socket->mss_bytes_ of
\* CubicUpdate (the target is not above the window) with mss = 0
Cubic_DividesByZero(s, c0, n, t) ==
    /\ n # 0
    /\ s.tcp_state_ # "Recovery"
    /\ ~(s.cwnd_ < s.ssthresh_)
    /\ s.mss_bytes_ = 0
    /\ LET c == [c0 EXCEPT !.m_cwnd = s.cwnd_, !.m_ssthresh = s.ssthresh_,
                           !.m_ackCount = @ + 1]
       IN  ~(CubicTarget(c, s, t).target > c.m_cwnd)

Cubic_PktsAcked(s0, c0, n, rtt) ==
    LET s  == RttUpdate(s0, rtt)
        c1 == IF rtt > 0 /\ rtt < c0.m_delayMin
              THEN [c0 EXCEPT !.m_delayMin = rtt] ELSE c0
        slow == c1.m_hystartEnabled /\ c1.m_cwnd < c1.m_ssthresh
        c2 == IF slow /\ rtt < c1.m_hystartDelayMin
              THEN [c1 EXCEPT !.m_hystartDelayMin = rtt] ELSE c1
        c3 == IF slow /\ rtt > c2.m_hystartDelayMax
              THEN [c2 EXCEPT !.m_hystartDelayMax = rtt] ELSE c2
        exit == slow /\ c3.m_hystartDelayMax - c3.m_hystartDelayMin > HystartAckDelta
        c4 == IF exit THEN [c3 EXCEPT !.m_ssthresh = c3.m_cwnd] ELSE c3
    IN  [ sock  |-> IF exit THEN [s EXCEPT !.ssthresh_ = c3.m_cwnd] ELSE s,
          cubic |-> [c4 EXCEPT !.m_ackCount = @ + n, !.m_cntRtt = @ + 1] ]

Cubic_CongestionStateSet(s0, c, st) ==
    LET s == [s0 EXCEPT !.tcp_state_ = st]
    IN  IF st \in {"Recovery", "Loss"}
        THEN Cubic_GetSsThresh(s, c)
        ELSE [sock |-> s, cubic |-> c]

CubicReset(c) ==
    [c EXCEPT !.m_lastMaxCwnd = 0, !.m_lastCwnd = 0, !.m_k = 0,
              !.m_ackCount = 0, !.m_cntRtt = 0, !.m_lastTime = 0,
              !.m_tcpCwnd = 0, !.m_delayMin = DelayUnset,
              !.m_hystartDelayMin = DelayUnset, !.m_hystartDelayMax = 0]

\* the Timeout branch, CubicReset() included
Cubic_TimeoutBranch(s, c) ==
    [sock  |-> [s EXCEPT !.cwnd_ = s.mss_bytes_, !.tcp_state_ = "Loss"],
     cubic |-> CubicReset([c EXCEPT !.m_cwnd = s.mss_bytes_])]

\* the fast-retransmit branch
Cubic_RecoveryBranch(s, c) ==
    [sock  |-> [s EXCEPT !.cwnd_ = c.m_ssthresh, !.tcp_state_ = "Recovery"],
     cubic |-> [c EXCEPT !.m_cwnd = c.m_ssthresh]]

\* case ECN
Cubic_EcnBranch(s, c) ==
    LET g == Cubic_GetSsThresh(s, c)
    IN  [sock  |-> [g.sock EXCEPT !.cwnd_ = g.cubic.m_ssthresh,
                                  !.tcp_state_ = "CWR"],
         cubic |-> [g.cubic EXCEPT !.m_cwnd = g.cubic.m_ssthresh,
                                   !.m_lastTime = 0]]

\* CwndEvent; resetEpoch says whether m_epochStart was set to now()
Cubic_CwndEvent(s0, c0, ev) ==
    LET s == [s0 EXCEPT !.congestion_event_ = ev]
    IN  CASE ev \in {"PacketLoss", "Timeout"} ->
               LET g == Cubic_GetSsThresh(s, c0)
                   r == IF ev = "Timeout"
                        THEN Cubic_TimeoutBranch(g.sock, g.cubic)
                        ELSE Cubic_RecoveryBranch(g.sock, g.cubic)
               IN  [sock  |-> r.sock,
                    cubic |-> [r.cubic EXCEPT !.m_lastTime = 0, !.m_ackCount = 0,
                                              !.m_tcpCwnd = 0,
                                              !.m_hystartDelayMin = DelayUnset,
                                              !.m_hystartDelayMax = 0],
                    resetEpoch |-> TRUE]
          [] ev = "ECN" ->
               LET r == Cubic_EcnBranch(s, c0)
               IN  [sock |-> r.sock, cubic |-> r.cubic, resetEpoch |-> TRUE]
          [] ev = "FastRecovery" ->
               [sock |-> [s EXCEPT !.tcp_state_ = "Recovery"], cubic |-> c0,
                resetEpoch |-> FALSE]
          [] OTHER -> [sock |-> s, cubic |-> c0, resetEpoch |-> FALSE]

Cubic_CongControl(s, c, ev, rtt) ==
    LET e == Cubic_CwndEvent(s, c, ev)
        p == Cubic_PktsAcked(e.sock, e.cubic, 1, rtt)
    IN  IF rtt > 0
        THEN [sock |-> p.sock, cubic |-> p.cubic, resetEpoch |-> e.resetEpoch]
        ELSE e

-----------------------------------------------------------------------------
(* Vegas: the congestion-avoidance update *)

\* the segment size CalculateDiff divides the window by
Vegas_SegmentBytes == 1460

\* the members when no Vegas object is bound to the connection
VegasUnused ==
    [ m_cwnd |-> 0, m_ssthresh |-> 0, m_baseRTT |-> 0, m_currentRTT |-> 0,
      m_alpha |-> 0, m_beta |-> 0, m_gamma |-> 0,
      m_enableSlowStart |-> FALSE, m_doingVegasNow |-> FALSE, mss |-> 0 ]

\* CalculateDiff as it would be with the current RTT in place of the RTT
\* difference
Vegas_CalculateDiff_NoBase(v) ==
    ((v.m_cwnd \div Vegas_SegmentBytes) * v.m_currentRTT) \div v.m_baseRTT

\* int32_t Vegas::CalculateDiff(), for m_currentRTT >= m_baseRTT > 0 (the
\* product and the quotient are then the same signed and unsigned)
Vegas_CalculateDiff(v) ==
    LET rttDiff      == v.m_currentRTT - v.m_baseRTT
        cwndSegments == v.m_cwnd \div Vegas_SegmentBytes
    IN  (cwndSegments * rttDiff) \div v.m_baseRTT

\* VegasUpdate as it would be with diff <= m_alpha as the test for growth
Vegas_VegasUpdate_Inclusive(v) ==
    LET diff == Vegas_CalculateDiff(v)
    IN  IF diff <= v.m_alpha
        THEN [v EXCEPT !.m_cwnd = @ + v.mss]
        ELSE IF diff > v.m_beta
        THEN [v EXCEPT !.m_cwnd = @ - v.mss]
        ELSE v

\* the three-way decision of Vegas::VegasUpdate
Vegas_VegasUpdate(v) ==
    LET diff == Vegas_CalculateDiff(v)
    IN  IF diff < v.m_alpha
        THEN [v EXCEPT !.m_cwnd = @ + v.mss]
        ELSE IF diff > v.m_beta
        THEN [v EXCEPT !.m_cwnd = @ - v.mss]
        ELSE v

\* ShouldExitSlowStart(): diff > m_gamma
Vegas_ShouldExitSlowStart(v) == Vegas_CalculateDiff(v) > v.m_gamma

\* the standard exponential growth of slow start: one MSS for every segment
\* acknowledged
Vegas_ExponentialGrowth(v, n) == [v EXCEPT !.m_cwnd = @ + n * v.mss]

\* SlowStart as it would be if the early exit set the threshold and let the
\* window grow all the same
Vegas_SlowStart_GrowOnExit(v, n) ==
    IF v.m_enableSlowStart /\ v.m_doingVegasNow /\ Vegas_ShouldExitSlowStart(v)
    THEN [Vegas_ExponentialGrowth(v, n) EXCEPT !.m_ssthresh = v.m_cwnd]
    ELSE Vegas_ExponentialGrowth(v, n)

\* Vegas::SlowStart: the early exit, and otherwise the standard growth; the
\* returned window is stored in m_cwnd
Vegas_SlowStart(v, n) ==
    IF v.m_enableSlowStart /\ v.m_doingVegasNow /\ Vegas_ShouldExitSlowStart(v)
    THEN [v EXCEPT !.m_ssthresh = v.m_cwnd]
    ELSE Vegas_ExponentialGrowth(v, n)

-----------------------------------------------------------------------------
(* The streaming uploader: main() of minio_stream.cpp *)

\* const size_t CHUNK_SIZE = 32 * 1024
CHUNK_SIZE == 32768
\* const size_t MIN_PART_SIZE = 5 * 1024 * 1024
MIN_PART_SIZE == 5242880

\* the run's locals when no upload is under way
UploadUnused ==
    [ pc |-> "idle", totalSize |-> 0, fileBytes |-> 0, totalRead |-> 0,
      allData |-> 0, partBuffer |-> 0, partNumber |-> 1, parts |-> <<>>,
      calls |-> <<>>, status |-> -1 ]

\* the locals as main() declares them, for a file measured at `size` bytes
\* that yields `bytes` bytes when it is read.  Buffers are held by their
\* sizes; status is -1 while main() runs and its return value afterwards.
UploadStart(size, bytes) ==
    [ pc |-> "start", totalSize |-> size, fileBytes |-> bytes, totalRead |-> 0,
      allData |-> 0, partBuffer |-> 0, partNumber |-> 1, parts |-> <<>>,
      calls |-> <<>>, status |-> -1 ]

\* file.gcount() after file.read(buffer, CHUNK_SIZE): a whole chunk, or what
\* is left of the file; 0 at the end of the file, which ends the loop
BytesRead(u) == Min(CHUNK_SIZE, u.fileBytes - u.totalRead)

\* one request sent through the SDK
SdkCall(name, number, size, parts, ok) ==
    [call |-> name, number |-> number, size |-> size, parts |-> parts, ok |-> ok]

\* return 1 / return 0
Return(u, code) == [u EXCEPT !.pc = "done", !.status = code]

\* the existence check and the choice of the path on the measured size
Upload_ChoosePath(u, exists) ==
    IF ~exists THEN Return(u, 1)
    ELSE IF u.totalSize < MIN_PART_SIZE
    THEN [u EXCEPT !.pc = "smallRead"]
    ELSE [u EXCEPT !.pc = "create"]

\* one turn of the small-file read loop
Upload_SmallRead(u) ==
    LET bytesRead == BytesRead(u)
    IN  IF bytesRead = 0 THEN [u EXCEPT !.pc = "put"]
        ELSE [u EXCEPT !.totalRead = @ + bytesRead, !.allData = @ + bytesRead]

\* minio.PutObject(args) and the end of main()
Upload_PutObject(u, ok) ==
    LET c == SdkCall("PutObject", 0, u.allData, <<>>, ok)
    IN  Return([u EXCEPT !.calls = Append(@, c)], IF ok THEN 0 ELSE 1)

\* minio.CreateMultipartUpload(createArgs)
Upload_CreateMultipartUpload(u, ok) ==
    LET c == SdkCall("CreateMultipartUpload", 0, 0, <<>>, ok)
        v == [u EXCEPT !.calls = Append(@, c)]
    IN  IF ok THEN [v EXCEPT !.pc = "read"] ELSE Return(v, 1)

\* bool isLastPart = (totalRead >= totalSize)
IsLastPart(u) == u.totalRead >= u.totalSize

\* one turn of the multipart loop up to the if: the read, the append to
\* partBuffer and the test that decides whether a part is uploaded
Upload_MultipartRead(u) ==
    LET bytesRead == BytesRead(u)
        v == [u EXCEPT !.totalRead = @ + bytesRead, !.partBuffer = @ + bytesRead]
    IN  IF bytesRead = 0 THEN [u EXCEPT !.pc = "complete"]
        ELSE IF v.partBuffer >= MIN_PART_SIZE \/ IsLastPart(v)
        THEN [v EXCEPT !.pc = "uploadPart"]
        ELSE [v EXCEPT !.pc = "read"]

\* the part recorded in `parts`; first is the file offset of its first byte
\* (the bytes in partBuffer are the last partBuffer.size() bytes read)
PartOf(u) ==
    [number |-> u.partNumber, first |-> u.totalRead - u.partBuffer,
     size |-> u.partBuffer]

\* the body of the if as it would be if a failed part were skipped
Upload_UploadPart_SkipFailed(u, ok) ==
    LET c == SdkCall("UploadPart", u.partNumber, u.partBuffer, <<>>, ok)
        v == [u EXCEPT !.calls = Append(@, c), !.partBuffer = 0,
                       !.partNumber = @ + 1, !.pc = "read"]
    IN  IF ok THEN [v EXCEPT !.parts = Append(@, PartOf(u))] ELSE v

\* the body of the if: minio.UploadPart, the record of the part, the clear
Upload_UploadPart(u, ok) ==
    LET c == SdkCall("UploadPart", u.partNumber, u.partBuffer, <<>>, ok)
        v == [u EXCEPT !.calls = Append(@, c)]
    IN  IF ok
        THEN [v EXCEPT !.parts = Append(@, PartOf(u)), !.partBuffer = 0,
                       !.partNumber = @ + 1, !.pc = "read"]
        ELSE Return(v, 1)

\* minio.CompleteMultipartUpload(completeArgs) and the end of main()
Upload_CompleteMultipartUpload(u, ok) ==
    LET c == SdkCall("CompleteMultipartUpload", Len(u.parts), 0, u.parts, ok)
    IN  Return([u EXCEPT !.calls = Append(@, c)], IF ok THEN 0 ELSE 1)

-----------------------------------------------------------------------------
(* The connection and the calls made on it *)

SocketInit(mss, segs) ==
    [ cwnd_             |-> segs * mss,
      ssthresh_         |-> InitialSsThresh,
      mss_bytes_        |-> mss,
      rtt_us_           |-> 0,
      rtt_var_          |-> 0,
      rto_us_           |-> 0,
      tcp_state_        |-> "SlowStart",
      congestion_event_ |-> "Other" ]

Snapshot ==
    [ hasSocket |-> hasSocket, sock |-> sock, bic |-> bic, cubic |-> cubic,
      elapsed |-> elapsed, vegas |-> vegas ]

Call(name, n, rtt, ev, st) ==
    [name |-> name, n |-> n, rtt |-> rtt, ev |-> ev, st |-> st]

Init ==
    /\ alg \in {"BIC", "CUBIC"}
    /\ hasSocket = TRUE
    /\ \E mss \in MssSet, segs \in InitSegs : sock = SocketInit(mss, segs)
    /\ bic = BicInit
    /\ \E fc \in BOOLEAN : (alg = "BIC" => fc) /\ cubic = CubicInit(fc)
    /\ elapsed = 0
    /\ op = Call("Init", 0, 0, "Other", "SlowStart")
    /\ vegas = VegasUnused
    /\ pre = [ hasSocket |-> TRUE, sock |-> sock, bic |-> bic, cubic |-> cubic,
               elapsed |-> 0, vegas |-> vegas ]
    /\ steps = 0
    /\ divz = "trap"
    /\ fault = FALSE
    /\ upload = UploadUnused

\* one call returns: the history is written and the new members are stored
Commit(o, s, b, c, e) ==
    /\ ~fault
    /\ steps < MaxSteps
    /\ steps' = steps + 1
    /\ op' = o
    /\ pre' = Snapshot
    /\ sock' = s
    /\ bic' = b
    /\ cubic' = c
    /\ elapsed' = e
    /\ UNCHANGED <<alg, hasSocket, vegas, divz, fault, upload>>

\* one call traps in a division by zero: it never returns
Trap(o) ==
    /\ ~fault
    /\ steps < MaxSteps
    /\ steps' = steps + 1
    /\ op' = o
    /\ pre' = Snapshot
    /\ fault' = TRUE
    /\ UNCHANGED <<alg, hasSocket, sock, bic, cubic, elapsed, vegas, divz, upload>>

Unchanged(o) == Commit(o, sock, bic, cubic, elapsed)

\* uint32_t GetSsThresh(socket, bytesInFlight)
GetSsThresh ==
    LET o == Call("GetSsThresh", 0, 0, "Other", "SlowStart")
    IN  IF ~hasSocket THEN Unchanged(o)
        ELSE IF alg = "BIC"
        THEN LET r == BIC_GetSsThresh(sock, bic)
             IN  Commit(o, r.sock, r.bic, cubic, elapsed)
        ELSE LET r == Cubic_GetSsThresh(sock, cubic)
             IN  Commit(o, r.sock, bic, r.cubic, elapsed)

\* void IncreaseWindow(socket, segmentsAcked); adv is how far the steady clock
\* has moved since the previous call (only Cubic reads the clock)
IncreaseWindow(n, adv) ==
    LET o == Call("IncreaseWindow", n, 0, "Other", "SlowStart")
    IN  /\ alg = "BIC" => adv = 0
        /\ IF ~hasSocket THEN Commit(o, sock, bic, cubic, elapsed + adv)
           ELSE IF alg = "BIC"
           THEN IF BIC_DividesByZero(sock, n) /\ divz = "trap"
                THEN Trap(o)
                ELSE LET r == BIC_IncreaseWindow(sock, bic, n)
                     IN  Commit(o, r.sock, r.bic, cubic, elapsed)
           ELSE IF Cubic_DividesByZero(sock, cubic, n, elapsed + adv) /\ divz = "trap"
                THEN Trap(o)
                ELSE LET r == Cubic_IncreaseWindow(sock, cubic, n, elapsed + adv)
                     IN  Commit(o, r.sock, bic, r.cubic, elapsed + adv)

\* void PktsAcked(socket, segmentsAcked, rtt)
PktsAcked(n, rtt) ==
    LET o == Call("PktsAcked", n, rtt, "Other", "SlowStart")
    IN  IF ~hasSocket THEN Unchanged(o)
        ELSE IF alg = "BIC"
        THEN LET r == BIC_PktsAcked(sock, bic, n, rtt)
             IN  Commit(o, r.sock, r.bic, cubic, elapsed)
        ELSE LET r == Cubic_PktsAcked(sock, cubic, n, rtt)
             IN  Commit(o, r.sock, bic, r.cubic, elapsed)

\* void CongestionStateSet(socket, congestionState)
CongestionStateSet(st) ==
    LET o == Call("CongestionStateSet", 0, 0, "Other", st)
    IN  IF ~hasSocket THEN Unchanged(o)
        ELSE IF alg = "BIC"
        THEN LET r == BIC_CongestionStateSet(sock, bic, st)
             IN  Commit(o, r.sock, r.bic, cubic, elapsed)
        ELSE LET r == Cubic_CongestionStateSet(sock, cubic, st)
             IN  Commit(o, r.sock, bic, r.cubic, elapsed)

\* CwndEvent as it would be without its check of the handle
CwndEvent_Unguarded(ev) ==
    LET o == Call("CwndEvent", 0, 0, ev, "SlowStart")
    IN  IF alg = "BIC"
        THEN LET r == BIC_CwndEvent(sock, bic, ev)
             IN  Commit(o, r.sock, r.bic, cubic, elapsed)
        ELSE LET r == Cubic_CwndEvent(sock, cubic, ev)
             IN  Commit(o, r.sock, bic, r.cubic,
                        IF r.resetEpoch THEN 0 ELSE elapsed)

\* void CwndEvent(socket, congestionEvent)
CwndEvent(ev) ==
    LET o == Call("CwndEvent", 0, 0, ev, "SlowStart")
    IN  IF ~hasSocket THEN Unchanged(o)
        ELSE IF alg = "BIC"
        THEN LET r == BIC_CwndEvent(sock, bic, ev)
             IN  Commit(o, r.sock, r.bic, cubic, elapsed)
        ELSE LET r == Cubic_CwndEvent(sock, cubic, ev)
             IN  Commit(o, r.sock, bic, r.cubic,
                        IF r.resetEpoch THEN 0 ELSE elapsed)

\* void CongControl(socket, congestionEvent, rtt)
CongControl(ev, rtt) ==
    LET o == Call("CongControl", 1, rtt, ev, "SlowStart")
    IN  IF ~hasSocket THEN Unchanged(o)
        ELSE IF alg = "BIC"
        THEN LET r == BIC_CongControl(sock, bic, ev, rtt)
             IN  Commit(o, r.sock, r.bic, cubic, elapsed)
        ELSE LET r == Cubic_CongControl(sock, cubic, ev, rtt)
             IN  Commit(o, r.sock, bic, r.cubic,
                        IF r.resetEpoch THEN 0 ELSE elapsed)

\* the owner tears the connection down: the handle is null from here on
Teardown ==
    /\ hasSocket
    /\ ~fault
    /\ steps < MaxSteps
    /\ steps' = steps + 1
    /\ op' = Call("Teardown", 0, 0, "Other", "SlowStart")
    /\ pre' = Snapshot
    /\ hasSocket' = FALSE
    /\ UNCHANGED <<alg, sock, bic, cubic, elapsed, vegas, divz, fault, upload>>

Next ==
    \/ GetSsThresh
    \/ \E n \in 0..MaxSegs, adv \in ClockAdvance : IncreaseWindow(n, adv)
    \/ \E n \in {0, MaxSegs}, rtt \in RttSamples : PktsAcked(n, rtt)
    \/ \E st \in TCPState : CongestionStateSet(st)
    \/ \E ev \in CongestionEvent : CwndEvent(ev)
    \/ \E ev \in CongestionEvent, rtt \in CongControlRtt : CongControl(ev, rtt)
    \/ Teardown

Spec == Init /\ [][Next]_vars

\* windows (bytes) of the connections whose MSS is 0
ZeroMssCwnd == {5840, 14600}

\* a connection the transport layer has set up with a degenerate MSS of 0,
\* on each kind of build
InitZeroMss ==
    /\ alg \in {"BIC", "CUBIC"}
    /\ hasSocket = TRUE
    /\ \E w \in ZeroMssCwnd : sock = [SocketInit(0, 0) EXCEPT !.cwnd_ = w]
    /\ bic = BicInit
    /\ \E fc \in BOOLEAN : (alg = "BIC" => fc) /\ cubic = CubicInit(fc)
    /\ elapsed = 0
    /\ op = Call("Init", 0, 0, "Other", "SlowStart")
    /\ vegas = VegasUnused
    /\ pre = [ hasSocket |-> TRUE, sock |-> sock, bic |-> bic, cubic |-> cubic,
               elapsed |-> 0, vegas |-> vegas ]
    /\ steps = 0
    /\ divz \in DivByZero
    /\ fault = FALSE
    /\ upload = UploadUnused

SpecZeroMss == InitZeroMss /\ [][Next]_vars

\* Inputs of one BIC congestion-avoidance step: the window in segments, the
\* remembered maximum as a distance from the window in segments (and bytes on
\* top), the new-maximum-found flag and the MSS.
BicStepMss == {1, 10, 1460}
BicStepCwndSegs == {2, 10, 20, 40}
BicStepGapSegs == {-33, -3, -1, 0, 1, 2, 7, 32, 33, 40}
BicStepGapBytes == {0, 3}

\* a BIC object in congestion avoidance (cwnd >= ssthresh) with any remembered
\* maximum and flag, as the members can stand when CongestionAvoidance runs
InitBicStep ==
    /\ alg = "BIC"
    /\ hasSocket = TRUE
    /\ \E mss \in BicStepMss, segs \in BicStepCwndSegs, gap \in BicStepGapSegs,
          rem \in BicStepGapBytes, found \in BOOLEAN :
          /\ segs + gap > 0
          /\ sock = [SocketInit(mss, segs) EXCEPT !.ssthresh_ = segs * mss,
                                                 !.tcp_state_ = "CongestionAvoidance"]
          /\ bic = [BicInit EXCEPT !.m_ssthresh = segs * mss,
                                  !.m_cwnd = segs * mss,
                                  !.m_lastMaxCwnd = (segs + gap) * mss + rem,
                                  !.m_minWin = segs * mss,
                                  !.m_foundNewMax = found]
    /\ cubic = CubicInit(TRUE)
    /\ elapsed = 0
    /\ op = Call("Init", 0, 0, "Other", "SlowStart")
    /\ vegas = VegasUnused
    /\ pre = [ hasSocket |-> TRUE, sock |-> sock, bic |-> bic, cubic |-> cubic,
               elapsed |-> 0, vegas |-> vegas ]
    /\ steps = 0
    /\ divz = "trap"
    /\ fault = FALSE
    /\ upload = UploadUnused

\* Inputs of the Vegas update: the window (bytes), the base RTT and the
\* queueing delay on top of it (microseconds), the thresholds <<alpha, beta>>
\* (segments) and the MSS.
VegasCwnd == {1460, 2000, 4380, 14600, 58400}
VegasBaseRtt == {50000, 100000}
VegasQueueing == {0, 10000, 30000, 50000, 100000}
VegasThresholds == {<<1, 3>>, <<2, 4>>}
VegasMss == {1000, 1460}

\* a Vegas object in congestion avoidance with an RTT sample taken
InitVegas ==
    /\ alg = "Vegas"
    /\ hasSocket = TRUE
    /\ sock = SocketInit(1460, 1)
    /\ bic = BicInit
    /\ cubic = CubicInit(TRUE)
    /\ elapsed = 0
    /\ \E w \in VegasCwnd, base \in VegasBaseRtt, q \in VegasQueueing,
          th \in VegasThresholds, mss \in VegasMss :
          vegas = [ m_cwnd |-> w, m_ssthresh |-> w,
                    m_baseRTT |-> base, m_currentRTT |-> base + q,
                    m_alpha |-> th[1], m_beta |-> th[2], m_gamma |-> 1,
                    m_enableSlowStart |-> TRUE, m_doingVegasNow |-> TRUE,
                    mss |-> mss ]
    /\ op = Call("Init", 0, 0, "Other", "SlowStart")
    /\ pre = [ hasSocket |-> TRUE, sock |-> sock, bic |-> bic, cubic |-> cubic,
               elapsed |-> 0, vegas |-> vegas ]
    /\ steps = 0
    /\ divz = "trap"
    /\ fault = FALSE
    /\ upload = UploadUnused

\* void Vegas::VegasUpdate(): one congestion-avoidance update
VegasUpdate ==
    /\ alg = "Vegas"
    /\ ~fault
    /\ steps < MaxSteps
    /\ steps' = steps + 1
    /\ op' = Call("VegasUpdate", 0, 0, "Other", "SlowStart")
    /\ pre' = Snapshot
    /\ vegas' = Vegas_VegasUpdate(vegas)
    /\ UNCHANGED <<alg, hasSocket, sock, bic, cubic, elapsed, divz, fault, upload>>

NextVegas == VegasUpdate

SpecVegas == InitVegas /\ [][NextVegas]_vars

\* Inputs of the Vegas slow-start step: the window and the threshold above it
\* (bytes), and gamma (segments).
VegasSlowStartCwnd == {1460, 4380, 14600}
VegasSlowStartSsthresh == {29200, 2147483647}
VegasGamma == {1, 2}

\* a Vegas object in slow start with an RTT sample taken
InitVegasSlowStart ==
    /\ alg = "Vegas"
    /\ hasSocket = TRUE
    /\ sock = SocketInit(1460, 1)
    /\ bic = BicInit
    /\ cubic = CubicInit(TRUE)
    /\ elapsed = 0
    /\ \E w \in VegasSlowStartCwnd, ss \in VegasSlowStartSsthresh,
          base \in VegasBaseRtt, q \in VegasQueueing, g \in VegasGamma,
          en \in BOOLEAN, now \in BOOLEAN, mss \in VegasMss :
          vegas = [ m_cwnd |-> w, m_ssthresh |-> ss,
                    m_baseRTT |-> base, m_currentRTT |-> base + q,
                    m_alpha |-> 2, m_beta |-> 4, m_gamma |-> g,
                    m_enableSlowStart |-> en, m_doingVegasNow |-> now,
                    mss |-> mss ]
    /\ op = Call("Init", 0, 0, "Other", "SlowStart")
    /\ pre = [ hasSocket |-> TRUE, sock |-> sock, bic |-> bic, cubic |-> cubic,
               elapsed |-> 0, vegas |-> vegas ]
    /\ steps = 0
    /\ divz = "trap"
    /\ fault = FALSE
    /\ upload = UploadUnused

\* uint32_t Vegas::SlowStart(socket, segmentsAcked), called while the window
\* is below the threshold
VegasSlowStart(n) ==
    /\ alg = "Vegas"
    /\ ~fault
    /\ steps < MaxSteps
    /\ vegas.m_cwnd < vegas.m_ssthresh
    /\ steps' = steps + 1
    /\ op' = Call("VegasSlowStart", n, 0, "Other", "SlowStart")
    /\ pre' = Snapshot
    /\ vegas' = Vegas_SlowStart(vegas, n)
    /\ UNCHANGED <<alg, hasSocket, sock, bic, cubic, elapsed, divz, fault, upload>>

NextVegasSlowStart == \E n \in 1..MaxSegs : VegasSlowStart(n)

SpecVegasSlowStart == InitVegasSlowStart /\ [][NextVegasSlowStart]_vars

NextBicStep == \E n \in 1..MaxSegs : IncreaseWindow(n, 0)

SpecBicStep == InitBicStep /\ [][NextBicStep]_vars

\* Inputs of a CUBIC congestion-avoidance step: the window before the
\* reduction in segments, the RTT sample and the segments the last PktsAcked
\* reported, whether a second ECN mark followed the first, and the time since
\* the reduction in milliseconds.
CubicStepSegs == {4, 40, 1000}
CubicStepRtt == {0, 1000, 100000}
CubicStepAcks == {0, 2}
CubicStepElapsed == {0, 1000, 10000}

\* a Cubic object in congestion avoidance: PktsAcked(acks, rtt), then
\* CwndEvent(ECN) once or twice, then the clock has moved on
InitCubicStep ==
    /\ alg = "CUBIC"
    /\ hasSocket = TRUE
    /\ bic = BicInit
    /\ \E mss \in MssSet, segs \in CubicStepSegs, rtt \in CubicStepRtt,
          acks \in CubicStepAcks, twice \in BOOLEAN :
          LET p  == Cubic_PktsAcked(SocketInit(mss, segs), CubicInit(TRUE), acks, rtt)
              e1 == Cubic_CwndEvent(p.sock, p.cubic, "ECN")
              e2 == IF twice THEN Cubic_CwndEvent(e1.sock, e1.cubic, "ECN") ELSE e1
          IN  /\ segs * mss <= Cubic_maxCwnd
              /\ sock = e2.sock
              /\ cubic = e2.cubic
    /\ elapsed \in CubicStepElapsed
    /\ op = Call("Init", 0, 0, "Other", "SlowStart")
    /\ vegas = VegasUnused
    /\ pre = [ hasSocket |-> TRUE, sock |-> sock, bic |-> bic, cubic |-> cubic,
               elapsed |-> elapsed, vegas |-> vegas ]
    /\ steps = 0
    /\ divz = "trap"
    /\ fault = FALSE
    /\ upload = UploadUnused

NextCubicStep == \E n \in 1..MaxSegs, adv \in ClockAdvance : IncreaseWindow(n, adv)

SpecCubicStep == InitCubicStep /\ [][NextCubicStep]_vars

\* A stream of ACKs after a retransmission timeout: a fresh connection takes
\* CwndEvent(Timeout) and from then on only IncreaseWindow calls with at least
\* one segment.  Only connections whose reduced threshold is within maxCwnd.
AckStreamSegs == {1, 4, 10}
\* the number of ACKs followed
MaxAcks == 10

InitAckStream ==
    /\ alg \in {"BIC", "CUBIC"}
    /\ hasSocket = TRUE
    /\ \E mss \in MssSet, segs \in AckStreamSegs, fc \in BOOLEAN :
          /\ alg = "BIC" => fc
          /\ IF alg = "BIC"
             THEN LET r == BIC_CwndEvent(SocketInit(mss, segs), BicInit, "Timeout")
                  IN  /\ r.sock.ssthresh_ <= BIC_maxCwnd
                      /\ sock = r.sock
                      /\ bic = r.bic
                      /\ cubic = CubicInit(fc)
             ELSE LET r == Cubic_CwndEvent(SocketInit(mss, segs), CubicInit(fc),
                                           "Timeout")
                  IN  /\ r.sock.ssthresh_ <= Cubic_maxCwnd
                      /\ sock = r.sock
                      /\ bic = BicInit
                      /\ cubic = r.cubic
    /\ elapsed = 0
    /\ op = Call("Init", 0, 0, "Other", "SlowStart")
    /\ vegas = VegasUnused
    /\ pre = [ hasSocket |-> TRUE, sock |-> sock, bic |-> bic, cubic |-> cubic,
               elapsed |-> elapsed, vegas |-> vegas ]
    /\ steps = 0
    /\ divz = "trap"
    /\ fault = FALSE
    /\ upload = UploadUnused

\* one more ACK of the stream: IncreaseWindow(socket, n) with n >= 1
AckInStream(n, adv) ==
    /\ steps < MaxAcks
    /\ alg = "BIC" => adv = 0
    /\ steps' = steps + 1
    /\ op' = Call("IncreaseWindow", n, 0, "Other", "SlowStart")
    /\ pre' = Snapshot
    /\ elapsed' = elapsed + adv
    /\ IF alg = "BIC"
       THEN LET r == BIC_IncreaseWindow(sock, bic, n)
            IN  sock' = r.sock /\ bic' = r.bic /\ cubic' = cubic
       ELSE LET r == Cubic_IncreaseWindow(sock, cubic, n, elapsed + adv)
            IN  sock' = r.sock /\ bic' = bic /\ cubic' = r.cubic
    /\ UNCHANGED <<alg, hasSocket, vegas, divz, fault, upload>>

NextAckStream == \E n \in 1..MaxSegs, adv \in ClockAdvance : AckInStream(n, adv)

\* the stream delivers its next ACK: what every AckInStream step does to the
\* count, enabled exactly when AckInStream is
AckDelivered == steps < MaxAcks /\ steps' = steps + 1

\* the stream continues: an ACK that can be delivered is delivered
SpecAckStream == InitAckStream /\ [][NextAckStream]_vars /\ WF_steps(AckDelivered)

\* One run of the uploader.  The file is measured once (totalSize) and read
\* later through another stream: what the read yields (fileBytes) is the
\* measured size, or less, or more when the file changed in between.
UploadSizes ==
    {0, 100, CHUNK_SIZE, MIN_PART_SIZE - 1, MIN_PART_SIZE, MIN_PART_SIZE + 1,
     MIN_PART_SIZE + CHUNK_SIZE, 2 * MIN_PART_SIZE, 2 * MIN_PART_SIZE + 5}
UploadDrift == {-70000, -1, 0, 1, 70000}

InitUpload ==
    /\ alg = "BIC"
    /\ hasSocket = FALSE
    /\ sock = SocketInit(1460, 1)
    /\ bic = BicInit
    /\ cubic = CubicInit(TRUE)
    /\ elapsed = 0
    /\ op = Call("Init", 0, 0, "Other", "SlowStart")
    /\ vegas = VegasUnused
    /\ pre = [ hasSocket |-> FALSE, sock |-> sock, bic |-> bic, cubic |-> cubic,
               elapsed |-> elapsed, vegas |-> vegas ]
    /\ steps = 0
    /\ divz = "trap"
    /\ fault = FALSE
    /\ \E size \in UploadSizes, d \in UploadDrift :
          /\ size + d >= 0
          /\ upload = UploadStart(size, size + d)

\* one step of main(): the locals change, no connection is involved
UploadStep(u) ==
    /\ upload' = u
    /\ UNCHANGED <<alg, hasSocket, sock, bic, cubic, elapsed, vegas, op, pre,
                   steps, divz, fault>>

ChoosePath(exists) ==
    upload.pc = "start" /\ UploadStep(Upload_ChoosePath(upload, exists))

SmallRead == upload.pc = "smallRead" /\ UploadStep(Upload_SmallRead(upload))

PutObject(ok) == upload.pc = "put" /\ UploadStep(Upload_PutObject(upload, ok))

CreateMultipartUpload(ok) ==
    upload.pc = "create" /\ UploadStep(Upload_CreateMultipartUpload(upload, ok))

MultipartRead == upload.pc = "read" /\ UploadStep(Upload_MultipartRead(upload))

UploadPart(ok) ==
    upload.pc = "uploadPart" /\ UploadStep(Upload_UploadPart(upload, ok))

CompleteMultipartUpload(ok) ==
    upload.pc = "complete"
    /\ UploadStep(Upload_CompleteMultipartUpload(upload, ok))

NextUpload ==
    \/ \E exists \in BOOLEAN : ChoosePath(exists)
    \/ SmallRead
    \/ \E ok \in BOOLEAN : PutObject(ok)
    \/ \E ok \in BOOLEAN : CreateMultipartUpload(ok)
    \/ MultipartRead
    \/ \E ok \in BOOLEAN : UploadPart(ok)
    \/ \E ok \in BOOLEAN : CompleteMultipartUpload(ok)

SpecUpload == InitUpload /\ [][NextUpload]_vars

-----------------------------------------------------------------------------
(* Reading the history *)

\* the last call was `name` and found a socket
Did(name) == op.name = name /\ pre.hasSocket

\* the last call delivered congestion event ev through CwndEvent
DidEvent(ev) == Did("CwndEvent") /\ op.ev = ev

MSS == sock.mss_bytes_

\* the bound strategy's remembered maximum, before and after the last call
LastMaxBefore == IF alg = "BIC" THEN pre.bic.m_lastMaxCwnd ELSE pre.cubic.m_lastMaxCwnd
LastMaxAfter  == IF alg = "BIC" THEN bic.m_lastMaxCwnd ELSE cubic.m_lastMaxCwnd

-----------------------------------------------------------------------------
(* C1 *)

\* C1: under BIC and CUBIC, from a connection with 0 < MSS <= cwnd, the
\* connection's cwnd is at least one MSS after every call of every sequence of
\* IncreaseWindow, PktsAcked, CwndEvent and CongestionStateSet calls.
C1_CwndAtLeastOneMss == sock.cwnd_ >= MSS

\* a window above one MSS has been taken down to exactly one MSS by a Timeout
\* that followed an earlier call
C1_Witness ==
    /\ DidEvent("Timeout")
    /\ steps = 2
    /\ pre.sock.cwnd_ > MSS
    /\ sock.cwnd_ = MSS

-----------------------------------------------------------------------------
(* C2 *)

\* C2: after every call that has set the connection's ssthresh (loss, timeout,
\* ECN reduction, Hystart early exit in PktsAcked), ssthresh is at least
\* 2 x MSS.
C2_SsthreshAtLeastTwoMss ==
    (op.name # "Init" /\ sock.ssthresh_ # pre.sock.ssthresh_)
        => sock.ssthresh_ >= 2 * MSS

-----------------------------------------------------------------------------
(* C3 *)

\* C3: a Timeout event, under BIC and under CUBIC and from any prior cwnd and
\* phase, leaves cwnd equal to exactly 1 x MSS and the phase equal to Loss.
C3_TimeoutResetsWindow ==
    (pre.hasSocket /\ op.name \in {"CwndEvent", "CongControl"} /\ op.ev = "Timeout")
        => (sock.cwnd_ = MSS /\ sock.tcp_state_ = "Loss")

\* a Timeout taken in Recovery with a window of several segments
C3_Witness ==
    /\ DidEvent("Timeout")
    /\ pre.sock.tcp_state_ = "Recovery"
    /\ pre.sock.cwnd_ >= 3 * MSS
    /\ sock.cwnd_ = MSS
    /\ sock.tcp_state_ = "Loss"

-----------------------------------------------------------------------------
(* C4 *)

\* C4: after a Timeout event all strategy memory is cleared: under BIC
\* lastMaxCwnd = 0, minWin = 0, the new-maximum-found flag is false and the ACK
\* and smooth-increase counters are 0; under CUBIC lastMaxCwnd = 0, K = 0, the
\* TCP-friendly estimate and the ACK / RTT counters are 0 and the Hystart delay
\* bounds are back at their initial values.
C4_TimeoutClearsMemory ==
    DidEvent("Timeout") =>
        IF alg = "BIC"
        THEN /\ bic.m_lastMaxCwnd = 0
             /\ bic.m_minWin = 0
             /\ bic.m_foundNewMax = FALSE
             /\ bic.m_ackCount = 0
             /\ bic.m_smoothPart = 0
        ELSE /\ cubic.m_lastMaxCwnd = 0
             /\ cubic.m_k = 0
             /\ cubic.m_tcpCwnd = 0
             /\ cubic.m_ackCount = 0
             /\ cubic.m_cntRtt = 0
             /\ cubic.m_hystartDelayMin = DelayUnset
             /\ cubic.m_hystartDelayMax = 0

\* a Timeout that found a remembered maximum (left by an earlier reduction)
\* and cleared it
C4_Witness ==
    /\ DidEvent("Timeout")
    /\ LastMaxBefore > 0
    /\ LastMaxAfter = 0

-----------------------------------------------------------------------------
(* C5 *)

\* C5: under BIC a PacketLoss event leaves lastMaxCwnd equal to the larger of
\* lastMaxCwnd and cwnd before the event; a loss taken while cwnd is below the
\* remembered maximum does not lower the remembered maximum.
C5_LossKeepsLargerMaximum ==
    (alg = "BIC" /\ DidEvent("PacketLoss"))
        => bic.m_lastMaxCwnd = Max(pre.bic.m_lastMaxCwnd, pre.sock.cwnd_)

-----------------------------------------------------------------------------
(* C6 *)

\* beta * W rounded down, beta = 0.8 under BIC and 0.7 under CUBIC
BetaTimes(w) == IF alg = "BIC" THEN (8 * w) \div 10 ELSE (7 * w) \div 10

\* C6: a PacketLoss event with prior window W sets ssthresh to beta * W rounded
\* down (beta = 0.8 under BIC, 0.7 under CUBIC), floored at 2 x MSS, sets cwnd
\* to that ssthresh and the phase to Recovery.
C6_LossReduction ==
    DidEvent("PacketLoss") =>
        /\ sock.ssthresh_ = Max(BetaTimes(pre.sock.cwnd_), 2 * MSS)
        /\ sock.cwnd_ = sock.ssthresh_
        /\ sock.tcp_state_ = "Recovery"

-----------------------------------------------------------------------------
(* C7 *)

\* the calls that take a loss reduction and keep its remembered maximum
DidLossReduction ==
    /\ pre.hasSocket
    /\ \/ op.name \in {"CwndEvent", "CongControl"} /\ op.ev \in {"PacketLoss", "ECN"}
       \/ op.name = "CongestionStateSet" /\ op.st \in {"Recovery", "Loss"}
       \/ op.name = "GetSsThresh"

\* C7: under CUBIC with fast convergence enabled, a loss reduction taken while
\* cwnd < lastMaxCwnd sets lastMaxCwnd to cwnd * (2 - beta) / 2 rounded down
\* (13 cwnd / 20), and a loss reduction taken while cwnd >= lastMaxCwnd, or
\* with fast convergence disabled, sets lastMaxCwnd to the pre-loss cwnd.
C7_FastConvergence ==
    (alg = "CUBIC" /\ DidLossReduction) =>
        cubic.m_lastMaxCwnd =
            IF pre.cubic.m_fastConvergence /\ pre.sock.cwnd_ < pre.cubic.m_lastMaxCwnd
            THEN (13 * pre.sock.cwnd_) \div 20
            ELSE pre.sock.cwnd_

\* a second loss, taken below the maximum the first one remembered, with fast
\* convergence on: the maximum shrinks below the window it was taken at
C7_Witness ==
    /\ alg = "CUBIC"
    /\ DidEvent("PacketLoss")
    /\ pre.cubic.m_fastConvergence
    /\ pre.sock.cwnd_ < pre.cubic.m_lastMaxCwnd
    /\ pre.sock.cwnd_ >= 20
    /\ cubic.m_lastMaxCwnd < pre.sock.cwnd_

-----------------------------------------------------------------------------
(* C8 *)

\* C8: from any state an ECN event yields the cwnd and ssthresh a PacketLoss
\* event yields from the same state, namely ssthresh = max(floor(beta * cwnd),
\* 2 x MSS) and cwnd = ssthresh, and sets the phase to CWR where PacketLoss
\* sets Recovery.
C8_EcnReducesLikeLoss ==
    (DidEvent("ECN") \/ DidEvent("PacketLoss")) =>
        /\ sock.ssthresh_ = Max(BetaTimes(pre.sock.cwnd_), 2 * MSS)
        /\ sock.cwnd_ = sock.ssthresh_
        /\ sock.tcp_state_ = (IF op.ev = "ECN" THEN "CWR" ELSE "Recovery")

-----------------------------------------------------------------------------
(* C9 *)

\* an Acked event with n >= 1 segments, delivered outside Recovery
DidAckOutsideRecovery ==
    /\ Did("IncreaseWindow")
    /\ op.n >= 1
    /\ pre.sock.tcp_state_ # "Recovery"

\* the cap IncreaseWindow puts on every window it stores
MaxCwnd == IF alg = "BIC" THEN BIC_maxCwnd ELSE Cubic_maxCwnd

\* the slow-start rule: cwnd + n x MSS, not beyond ssthresh (nor maxCwnd)
SlowStartRule ==
    Min(Min(pre.sock.cwnd_ + op.n * MSS, pre.sock.ssthresh_), MaxCwnd)

\* the windows one congestion-avoidance step can leave.  BIC: the window plus
\* half of Smax segments (the target being cwnd + Smax segments), not below
\* minWin; CUBIC: the window, or the window plus one MSS.
AvoidanceRule ==
    IF alg = "BIC"
    THEN {Min(Max(pre.sock.cwnd_ + (BIC_maxIncr \div 2) * MSS, pre.bic.m_minWin),
              MaxCwnd)}
    ELSE {Min(pre.sock.cwnd_, MaxCwnd), Min(pre.sock.cwnd_ + MSS, MaxCwnd)}

\* the strategy's ACK counter has been advanced by one growth-function update
\* (CUBIC's update clears it when it grows the window)
UpdateCounted ==
    IF alg = "BIC"
    THEN bic.m_ackCount = pre.bic.m_ackCount + 1
    ELSE cubic.m_ackCount \in {pre.cubic.m_ackCount + 1, 0}
         /\ cubic.m_lastTime = elapsed

UpdateNotCounted ==
    IF alg = "BIC"
    THEN bic.m_ackCount = pre.bic.m_ackCount
    ELSE cubic.m_ackCount = pre.cubic.m_ackCount
         /\ cubic.m_lastTime = pre.cubic.m_lastTime

\* C9: in any phase other than Recovery an Acked event with n >= 1 segments
\* grows cwnd by the slow-start rule if and only if cwnd < ssthresh before the
\* event, and by the strategy's congestion-avoidance rule otherwise; a
\* slow-start step never leaves cwnd above ssthresh.
C9_SlowStartIffBelowSsthresh ==
    DidAckOutsideRecovery =>
        IF pre.sock.cwnd_ < pre.sock.ssthresh_
        THEN /\ sock.cwnd_ = SlowStartRule
             /\ sock.cwnd_ <= sock.ssthresh_
             /\ UpdateNotCounted
        ELSE /\ sock.cwnd_ \in AvoidanceRule
             /\ UpdateCounted

\* a slow-start step that would have passed ssthresh and stopped on it
C9_Witness ==
    /\ DidAckOutsideRecovery
    /\ pre.sock.cwnd_ < pre.sock.ssthresh_
    /\ pre.sock.cwnd_ + op.n * MSS > pre.sock.ssthresh_
    /\ sock.cwnd_ = sock.ssthresh_

-----------------------------------------------------------------------------
(* C10 *)

\* the edges of the phase graph
PhaseGraph ==
    {<<"SlowStart", "CongestionAvoidance">>,
     <<"SlowStart", "Recovery">>, <<"CongestionAvoidance", "Recovery">>,
     <<"SlowStart", "Loss">>, <<"CongestionAvoidance", "Loss">>,
     <<"Recovery", "CongestionAvoidance">>,
     <<"CongestionAvoidance", "CWR">>, <<"Recovery", "CWR">>, <<"Loss", "CWR">>}

\* C10: every change of the connection's phase made by CwndEvent,
\* CongestionStateSet or IncreaseWindow follows an edge of the phase graph
\* (SlowStart -> CongestionAvoidance, SlowStart / CongestionAvoidance ->
\* Recovery on PacketLoss, -> Loss on Timeout, Recovery -> CongestionAvoidance
\* on a new ACK, CongestionAvoidance / Recovery / Loss -> CWR on ECN); no other
\* phase change occurs.
C10_PhaseChangesFollowGraph ==
    (/\ pre.hasSocket
     /\ op.name \in {"CwndEvent", "CongestionStateSet", "IncreaseWindow"}
     /\ sock.tcp_state_ # pre.sock.tcp_state_)
        => <<pre.sock.tcp_state_, sock.tcp_state_>> \in PhaseGraph

-----------------------------------------------------------------------------
(* C11 *)

\* C11: once a PacketLoss has put the connection in Recovery, an Acked event
\* with new segments moves the phase from Recovery to CongestionAvoidance (so
\* a stream of Acked events does not leave the connection in Recovery).
C11_AckLeavesRecovery ==
    (/\ Did("IncreaseWindow")
     /\ op.n >= 1
     /\ pre.sock.tcp_state_ = "Recovery"
     /\ pre.sock.congestion_event_ = "PacketLoss")
        => sock.tcp_state_ = "CongestionAvoidance"

-----------------------------------------------------------------------------
(* C12 *)

\* C12: whenever an operation puts the connection into the Loss phase
\* (CwndEvent(Timeout) or CongestionStateSet(Loss)), cwnd is exactly one MSS
\* immediately afterwards, whereas entering Recovery through PacketLoss leaves
\* cwnd = ssthresh.
C12_LossEntryRestartsWindow ==
    /\ (DidEvent("Timeout") \/ (Did("CongestionStateSet") /\ op.st = "Loss"))
           => (sock.tcp_state_ = "Loss" /\ sock.cwnd_ = MSS)
    /\ DidEvent("PacketLoss")
           => (sock.tcp_state_ = "Recovery" /\ sock.cwnd_ = sock.ssthresh_)

-----------------------------------------------------------------------------
(* C13 *)

\* C13: an Acked event with zero acknowledged segments is a no-op: delivered
\* through IncreaseWindow(0) and PktsAcked(0, rtt) it changes neither the
\* connection record (cwnd, ssthresh, phase, rtt, rttVariance, rto) nor any
\* strategy state (ACK / RTT counters, Hystart delay bounds).
C13_ZeroSegmentsNoOp ==
    ((Did("IncreaseWindow") \/ Did("PktsAcked")) /\ op.n = 0)
        => (sock = pre.sock /\ bic = pre.bic /\ cubic = pre.cubic)

-----------------------------------------------------------------------------
(* C14 *)

\* the last call was one of the six operations and found the handle null
CalledOnNull ==
    /\ ~pre.hasSocket
    /\ op.name \in {"GetSsThresh", "IncreaseWindow", "PktsAcked",
                    "CongestionStateSet", "CwndEvent", "CongControl"}

\* C14: every operation invoked with a null connection handle (GetSsThresh,
\* IncreaseWindow, PktsAcked, CongestionStateSet, CwndEvent, CongControl)
\* returns without changing any strategy state (lastMaxCwnd, ssthresh copy,
\* counters, flags, epoch).
C14_NullHandleChangesNothing ==
    CalledOnNull => (bic = pre.bic /\ cubic = pre.cubic /\ sock = pre.sock)

\* a Timeout delivered after the teardown, to a strategy whose last socket
\* still held a window of several segments: nothing was reset
C14_Witness ==
    /\ CalledOnNull
    /\ op.name = "CwndEvent"
    /\ op.ev = "Timeout"
    /\ sock.cwnd_ > MSS
    /\ bic = pre.bic
    /\ cubic = pre.cubic

-----------------------------------------------------------------------------
(* C15 *)

\* an Acked event that took the congestion-avoidance branch with MSS = 0
DidAvoidanceStepZeroMss ==
    /\ Did("IncreaseWindow")
    /\ op.n >= 1
    /\ pre.sock.mss_bytes_ = 0
    /\ pre.sock.tcp_state_ # "Recovery"
    /\ pre.sock.cwnd_ >= pre.sock.ssthresh_

\* C15: with a degenerate MSS of 0 on the connection, a congestion-avoidance
\* Acked step under BIC (distance to target) and under CUBIC (per-window ACK
\* threshold) completes and returns a well-formed or unchanged connection
\* state instead of dividing by zero.
C15_ZeroMssStepCompletes ==
    DidAvoidanceStepZeroMss =>
        /\ ~fault
        /\ sock.cwnd_ >= pre.sock.cwnd_
        /\ sock.tcp_state_ = pre.sock.tcp_state_

-----------------------------------------------------------------------------
(* C16 *)

\* whole segments between the window and the remembered maximum, before the
\* last call
SegsBelowMax == (pre.bic.m_lastMaxCwnd - pre.sock.cwnd_) \div MSS

\* a BIC congestion-avoidance step taken below the remembered maximum, the
\* distance being within Smax segments
DidBicStepBelowMax ==
    /\ alg = "BIC"
    /\ Did("IncreaseWindow")
    /\ op.n >= 1
    /\ pre.sock.tcp_state_ # "Recovery"
    /\ pre.sock.cwnd_ >= pre.sock.ssthresh_
    /\ pre.sock.cwnd_ < pre.bic.m_lastMaxCwnd
    /\ SegsBelowMax >= 1
    /\ SegsBelowMax <= BIC_maxIncr

\* C16: under BIC, when cwnd is below the remembered maximum lastMaxCwnd (as
\* after a loss) and the distance in segments is within Smax, one
\* congestion-avoidance growth step raises cwnd by half the distance to
\* lastMaxCwnd (at least Smin segments), i.e. to the binary midpoint.
C16_BinaryMidpoint ==
    DidBicStepBelowMax =>
        sock.cwnd_ = Min(pre.sock.cwnd_
                           + Max(SegsBelowMax \div 2, BIC_minIncr) * MSS,
                         BIC_maxCwnd)

-----------------------------------------------------------------------------
(* C20 *)

\* a BIC congestion-avoidance step
DidBicStep ==
    /\ alg = "BIC"
    /\ Did("IncreaseWindow")
    /\ op.n >= 1
    /\ pre.sock.tcp_state_ # "Recovery"
    /\ pre.sock.cwnd_ >= pre.sock.ssthresh_

\* the step's target: lastMaxCwnd if a new maximum has been found, otherwise
\* cwnd + Smax x MSS
StepTarget ==
    IF pre.bic.m_foundNewMax
    THEN pre.bic.m_lastMaxCwnd
    ELSE pre.sock.cwnd_ + BIC_maxIncr * MSS

\* dist = (target - cwnd) / MSS, for a target above the window
StepDist == (StepTarget - pre.sock.cwnd_) \div MSS

-----------------------------------------------------------------------------
(* C17 *)

\* C17: under CUBIC the cubic target window evaluated at elapsed time t = K
\* equals lastMaxCwnd exactly (the cubic term is zero), for every lastMaxCwnd,
\* K being the value the loss reduction computed from lastMaxCwnd.
C17_TargetAtKIsLastMax ==
    alg = "CUBIC" =>
        CubicWindowCalculation(cubic, cubic.m_k) = cubic.m_lastMaxCwnd

\* a loss reduction has just computed a K above zero: the target starts below
\* the remembered maximum, meets it at K and is above it three seconds later
C17_Witness ==
    /\ alg = "CUBIC"
    /\ DidLossReduction
    /\ cubic.m_lastMaxCwnd > 0
    /\ cubic.m_k > 0
    /\ cubic.m_k = CalculateK(cubic.m_lastMaxCwnd)
    /\ CubicWindowCalculation(cubic, 0) < cubic.m_lastMaxCwnd
    /\ CubicWindowCalculation(cubic, cubic.m_k) = cubic.m_lastMaxCwnd
    /\ CubicWindowCalculation(cubic, cubic.m_k + 3000) > cubic.m_lastMaxCwnd

-----------------------------------------------------------------------------
(* C18 *)

\* diff = cwnd_segments x (currentRTT - baseRTT) / baseRTT before the last
\* update, cwnd_segments being the window in 1460-byte segments
DiffBefore ==
    ((pre.vegas.m_cwnd \div 1460)
        * (pre.vegas.m_currentRTT - pre.vegas.m_baseRTT)) \div pre.vegas.m_baseRTT

\* C18: under Vegas in congestion avoidance, one update step with diff =
\* cwnd_segments x (currentRTT - baseRTT) / baseRTT increases cwnd by exactly
\* one MSS when diff < alpha, decreases cwnd by exactly one MSS when
\* diff > beta, and leaves cwnd unchanged when alpha <= diff <= beta.
C18_VegasThreeWay ==
    op.name = "VegasUpdate" =>
        vegas.m_cwnd =
            IF DiffBefore < pre.vegas.m_alpha THEN pre.vegas.m_cwnd + pre.vegas.mss
            ELSE IF DiffBefore > pre.vegas.m_beta THEN pre.vegas.m_cwnd - pre.vegas.mss
            ELSE pre.vegas.m_cwnd

\* an update that found more than beta segments queued and took one MSS off
C18_Witness ==
    /\ op.name = "VegasUpdate"
    /\ DiffBefore > pre.vegas.m_beta
    /\ vegas.m_cwnd = pre.vegas.m_cwnd - pre.vegas.mss
    /\ vegas.m_cwnd > 0

-----------------------------------------------------------------------------
(* C19 *)

\* an update taken with currentRTT equal to baseRTT
DidVegasUpdateAtBaseRtt ==
    /\ op.name = "VegasUpdate"
    /\ pre.vegas.m_currentRTT = pre.vegas.m_baseRTT

\* C19, as stated: under Vegas, when currentRTT equals baseRTT (both 100 ms,
\* diff = 0 < alpha), cwnd is unchanged after the congestion-avoidance update
\* step.
C19_UnchangedAtBaseRtt ==
    DidVegasUpdateAtBaseRtt => vegas.m_cwnd = pre.vegas.m_cwnd

\* C19, amended: under Vegas, when currentRTT equals baseRTT (diff = 0 <
\* alpha), the congestion-avoidance update step increases cwnd by exactly one
\* MSS.
C19_GrowsAtBaseRtt ==
    (DidVegasUpdateAtBaseRtt /\ 0 < pre.vegas.m_alpha)
        => vegas.m_cwnd = pre.vegas.m_cwnd + pre.vegas.mss

\* baseRTT = currentRTT = 100 ms: the window has grown by one MSS
C19_Witness ==
    /\ DidVegasUpdateAtBaseRtt
    /\ pre.vegas.m_baseRTT = 100000
    /\ pre.vegas.m_cwnd >= 10 * 1460
    /\ vegas.m_cwnd = pre.vegas.m_cwnd + pre.vegas.mss

-----------------------------------------------------------------------------
(* C21 *)

\* the maximum the step works with once the target is reached: the recorded
\* one, or the current window if none was recorded
StepMaximum ==
    IF pre.bic.m_foundNewMax THEN pre.bic.m_lastMaxCwnd ELSE pre.sock.cwnd_

\* the window is still below the maximum plus Smax segments
StepIsSlow == pre.sock.cwnd_ < StepMaximum + BIC_maxIncr * MSS

-----------------------------------------------------------------------------
(* C22 *)

\* a CUBIC congestion-avoidance step
DidCubicStep ==
    /\ alg = "CUBIC"
    /\ Did("IncreaseWindow")
    /\ op.n >= 1
    /\ pre.hasSocket
    /\ pre.sock.tcp_state_ # "Recovery"
    /\ pre.sock.cwnd_ >= pre.sock.ssthresh_

\* W(t) = C (t - K)^3 + lastMaxCwnd at the time of the step
StepCubicWindow == CubicWindowCalculation(pre.cubic, elapsed)

\* W_tcp, the linear-growth estimate the step has left in m_tcpCwnd
StepTcpWindow == cubic.m_tcpCwnd

\* the number of ACKs a step with the given target waits for before it adds
\* one MSS
StepCount(target) ==
    IF target > pre.sock.cwnd_
    THEN Max(pre.sock.cwnd_ \div (target - pre.sock.cwnd_), 1)
    ELSE pre.sock.cwnd_ \div MSS

\* the step has added one MSS (and cleared the ACK counter)
StepGrew == cubic.m_ackCount = 0

\* C22: in every CUBIC congestion-avoidance step with TCP-friendly mode on
\* and a positive RTT, the growth target used is max(W(t), W_tcp), W(t) being
\* C (t - K)^3 + lastMaxCwnd and W_tcp the linear-growth estimate: the step
\* grows the window exactly when the ACK counter has reached the count that
\* target gives, and the target is below neither of the two.
C22_TargetIsLargerEstimate ==
    (DidCubicStep /\ pre.cubic.m_tcpFriendly /\ pre.sock.rtt_us_ > 0) =>
        LET used == CubicTarget(pre.cubic, pre.sock, elapsed)
        IN  /\ used.target = Max(StepCubicWindow, StepTcpWindow)
            /\ used.target >= StepCubicWindow
            /\ used.target >= StepTcpWindow
            /\ StepGrew <=> (pre.cubic.m_ackCount + 1
                               >= StepCount(Max(StepCubicWindow, StepTcpWindow)))

\* a step whose TCP estimate is above W(t) and which grew the window although
\* the ACK counter had not reached the count W(t) alone would give
C22_Witness ==
    /\ DidCubicStep
    /\ pre.cubic.m_tcpFriendly
    /\ pre.sock.rtt_us_ > 0
    /\ StepTcpWindow > StepCubicWindow
    /\ StepCubicWindow > pre.sock.cwnd_
    /\ pre.cubic.m_ackCount + 1 < StepCount(StepCubicWindow)
    /\ StepGrew

-----------------------------------------------------------------------------
(* C23 *)

\* the target of the last step and the count it gives
StepUsedTarget == CubicTarget(pre.cubic, pre.sock, elapsed).target

\* the ACK counter, advanced by the step, has reached the computed count
StepCountReached == pre.cubic.m_ackCount + 1 >= StepCount(StepUsedTarget)

\* C23: a single CUBIC congestion-avoidance step never jumps to the target:
\* it changes cwnd by either 0 or exactly +1 MSS, the +1 MSS being taken only
\* when the ACK counter has reached the computed count (cwnd / (target - cwnd),
\* at least 1, below the target; cwnd / MSS at or above it), after which the
\* counter is reset to 0; the step never decreases cwnd.
C23_AtMostOneMssPerStep ==
    DidCubicStep =>
        /\ sock.cwnd_ \in {pre.sock.cwnd_, pre.sock.cwnd_ + MSS}
        /\ sock.cwnd_ >= pre.sock.cwnd_
        /\ (sock.cwnd_ = pre.sock.cwnd_ + MSS)
              => (StepCountReached /\ cubic.m_ackCount = 0)
        /\ (sock.cwnd_ = pre.sock.cwnd_)
              => (~StepCountReached /\ cubic.m_ackCount = pre.cubic.m_ackCount + 1)

\* a step more than one MSS below its target whose count was reached: the
\* window has grown by one MSS and is still below the target
C23_Witness ==
    /\ DidCubicStep
    /\ StepUsedTarget > pre.sock.cwnd_ + 2 * MSS
    /\ StepCountReached
    /\ sock.cwnd_ = pre.sock.cwnd_ + MSS
    /\ cubic.m_ackCount = 0

-----------------------------------------------------------------------------
(* C24 *)

\* PktsAcked was called on a Cubic object with Hystart enabled
DidHystartSample ==
    /\ alg = "CUBIC"
    /\ Did("PktsAcked")
    /\ pre.hasSocket
    /\ pre.cubic.m_hystartEnabled

\* the spread between the largest and the smallest RTT sample since the last
\* reset, the sample of the last call included
RttSpread ==
    Max(pre.cubic.m_hystartDelayMax, op.rtt)
        - Min(pre.cubic.m_hystartDelayMin, op.rtt)

\* C24: under CUBIC with Hystart enabled, while the connection is in slow
\* start (cwnd < ssthresh), as soon as the spread between the maximum and the
\* minimum RTT sample since the last reset exceeds the Hystart delta,
\* PktsAcked sets ssthresh to the connection's current cwnd (so the next Acked
\* event is a congestion-avoidance step); outside slow start the RTT spread
\* never changes ssthresh.
C24_HystartExit ==
    DidHystartSample =>
        IF pre.sock.cwnd_ < pre.sock.ssthresh_
        THEN RttSpread > HystartAckDelta => sock.ssthresh_ = sock.cwnd_
        ELSE sock.ssthresh_ = pre.sock.ssthresh_

-----------------------------------------------------------------------------
(* C25 *)

\* an Acked event that carried an RTT sample: PktsAcked, or CongControl with a
\* valid RTT
DidRttSample ==
    /\ pre.hasSocket
    /\ Did("PktsAcked") \/ (Did("CongControl") /\ op.rtt > 0)

\* C25: after every Acked event that carries an RTT sample s, the variance is
\* s / 2 if the previous variance was 0 and (3 var + s) / 4 otherwise (integer
\* division), rtt is s, and rto = rtt + 4 x variance holds.
C25_RttDamping ==
    DidRttSample =>
        /\ sock.rtt_us_ = op.rtt
        /\ sock.rtt_var_ = IF pre.sock.rtt_var_ = 0
                           THEN op.rtt \div 2
                           ELSE (3 * pre.sock.rtt_var_ + op.rtt) \div 4
        /\ sock.rto_us_ = sock.rtt_us_ + 4 * sock.rtt_var_

\* a sample damped into a variance that was not 0, the division by 4 leaving a
\* remainder
C25_Witness ==
    /\ DidRttSample
    /\ pre.sock.rtt_var_ > 0
    /\ op.rtt > 0
    /\ (3 * pre.sock.rtt_var_ + op.rtt) % 4 # 0
    /\ sock.rtt_var_ = (3 * pre.sock.rtt_var_ + op.rtt) \div 4
    /\ sock.rto_us_ = op.rtt + 4 * sock.rtt_var_

-----------------------------------------------------------------------------
(* C26 *)

\* a Vegas slow-start step
DidVegasSlowStart == op.name = "VegasSlowStart"

\* delay-based mode was active at the step
DelayModeActive == pre.vegas.m_enableSlowStart /\ pre.vegas.m_doingVegasNow

\* C26: under Vegas during slow start, once diff > gamma (with delay-based
\* mode active) the slow-start step sets ssthresh to the current cwnd and
\* returns cwnd unchanged, so exponential growth stops at that point (the
\* window is no longer below the threshold); while diff <= gamma slow start
\* keeps growing exponentially, one MSS for every segment acknowledged.
C26_VegasSlowStartExit ==
    DidVegasSlowStart =>
        /\ (DelayModeActive /\ DiffBefore > pre.vegas.m_gamma)
              => /\ vegas.m_ssthresh = pre.vegas.m_cwnd
                 /\ vegas.m_cwnd = pre.vegas.m_cwnd
                 /\ ~(vegas.m_cwnd < vegas.m_ssthresh)
        /\ (DiffBefore <= pre.vegas.m_gamma)
              => /\ vegas.m_cwnd = pre.vegas.m_cwnd + op.n * pre.vegas.mss
                 /\ vegas.m_ssthresh = pre.vegas.m_ssthresh

\* a step that found more than gamma segments queued: the threshold has come
\* down to the window and the window did not grow
C26_Witness ==
    /\ DidVegasSlowStart
    /\ DelayModeActive
    /\ DiffBefore > pre.vegas.m_gamma
    /\ pre.vegas.m_ssthresh > pre.vegas.m_cwnd
    /\ vegas.m_ssthresh = pre.vegas.m_cwnd
    /\ vegas.m_cwnd = pre.vegas.m_cwnd

-----------------------------------------------------------------------------
(* C27 *)

-----------------------------------------------------------------------------
(* C28 *)

\* C28: after every IncreaseWindow call with n >= 1 segments, under BIC and
\* CUBIC and in every phase, the connection's cwnd is at most maxCwnd (65535
\* bytes); the loss, timeout and ECN paths do not apply this cap: they leave
\* cwnd on ssthresh (PacketLoss, ECN) or on one MSS (Timeout) whatever maxCwnd
\* is.
C28_IncreaseWindowCaps ==
    /\ (Did("IncreaseWindow") /\ op.n >= 1) => sock.cwnd_ <= MaxCwnd
    /\ (DidEvent("PacketLoss") \/ DidEvent("ECN")) => sock.cwnd_ = sock.ssthresh_
    /\ DidEvent("Timeout") => sock.cwnd_ = MSS

\* a loss or ECN reduction had left the window on an ssthresh above maxCwnd;
\* the next IncreaseWindow brought it down to maxCwnd
C28_Witness ==
    /\ Did("IncreaseWindow")
    /\ op.n >= 1
    /\ pre.sock.congestion_event_ \in {"PacketLoss", "ECN"}
    /\ pre.sock.cwnd_ = pre.sock.ssthresh_
    /\ pre.sock.cwnd_ > MaxCwnd
    /\ sock.cwnd_ = MaxCwnd

-----------------------------------------------------------------------------
(* C29 *)

\* C29: a PacketLoss or ECN event never leaves cwnd larger than it was before
\* the event, in every reachable state (directly after a Timeout, when cwnd is
\* one MSS, included), under both BIC and CUBIC.
C29_LossNeverGrowsWindow ==
    (DidEvent("PacketLoss") \/ DidEvent("ECN")) => sock.cwnd_ <= pre.sock.cwnd_

-----------------------------------------------------------------------------
(* C30 *)

\* CongestionStateSet(Recovery) has announced a loss to a Cubic object
DidAnnounceRecovery ==
    /\ alg = "CUBIC"
    /\ Did("CongestionStateSet")
    /\ op.st = "Recovery"

\* the connection after CwndEvent(PacketLoss) alone, from the state before the
\* announcement, and after CwndEvent(PacketLoss) following the announcement
LossAlone == Cubic_CwndEvent(pre.sock, pre.cubic, "PacketLoss")
LossAnnouncedTwice == Cubic_CwndEvent(sock, cubic, "PacketLoss")

\* C30: under CUBIC, announcing a loss twice for the same window,
\* CongestionStateSet(Recovery) followed by CwndEvent(PacketLoss) with cwnd
\* unchanged in between, yields the same ssthresh, cwnd, lastMaxCwnd and K as
\* CwndEvent(PacketLoss) alone, also when fast convergence applies (cwnd <
\* lastMaxCwnd).
C30_LossAnnouncedTwice ==
    DidAnnounceRecovery =>
        /\ sock.cwnd_ = pre.sock.cwnd_
        /\ LossAnnouncedTwice.sock.ssthresh_ = LossAlone.sock.ssthresh_
        /\ LossAnnouncedTwice.sock.cwnd_ = LossAlone.sock.cwnd_
        /\ LossAnnouncedTwice.cubic.m_lastMaxCwnd = LossAlone.cubic.m_lastMaxCwnd
        /\ LossAnnouncedTwice.cubic.m_k = LossAlone.cubic.m_k

-----------------------------------------------------------------------------
(* C31 *)

\* C31: immediately after any PacketLoss or ECN event taken with cwnd >= 2 x
\* MSS, the remembered maximum lastMaxCwnd is at least the post-reduction
\* cwnd, under BIC and under CUBIC with fast convergence enabled.
C31_MaximumNotBelowWindow ==
    ( /\ DidEvent("PacketLoss") \/ DidEvent("ECN")
      /\ pre.sock.cwnd_ >= 2 * MSS
      /\ alg = "BIC" \/ pre.cubic.m_fastConvergence )
        => LastMaxAfter >= sock.cwnd_

-----------------------------------------------------------------------------
(* C32 *)

\* C32: while the connection's phase is Recovery, every Acked event with n >=
\* 1 segments sets cwnd to min(cwnd + n x MSS, maxCwnd) regardless of ssthresh
\* and of the strategy's growth rule, and IncreaseWindow itself never changes
\* the phase (so cwnd can grow above ssthresh by window inflation for as long
\* as the caller leaves the phase at Recovery).
C32_RecoveryInflation ==
    (Did("IncreaseWindow") /\ op.n >= 1) =>
        /\ sock.tcp_state_ = pre.sock.tcp_state_
        /\ pre.sock.tcp_state_ = "Recovery" =>
              /\ sock.cwnd_ = Min(pre.sock.cwnd_ + op.n * MSS, MaxCwnd)
              /\ sock.ssthresh_ = pre.sock.ssthresh_

\* an ACK in Recovery that took the window from ssthresh to above it
C32_Witness ==
    /\ alg = "BIC"
    /\ Did("IncreaseWindow")
    /\ op.n >= 1
    /\ pre.sock.tcp_state_ = "Recovery"
    /\ pre.sock.cwnd_ = pre.sock.ssthresh_
    /\ sock.cwnd_ = pre.sock.cwnd_ + op.n * MSS
    /\ sock.cwnd_ > sock.ssthresh_
    /\ sock.tcp_state_ = "Recovery"

-----------------------------------------------------------------------------
(* C33 *)

\* CwndEvent applied to the members before the call, then PktsAcked with one
\* segment when the sample is above zero
EventThenSample ==
    IF alg = "BIC"
    THEN LET e == BIC_CwndEvent(pre.sock, pre.bic, op.ev)
             r == IF op.rtt > 0 THEN BIC_PktsAcked(e.sock, e.bic, 1, op.rtt) ELSE e
         IN  sock = r.sock /\ bic = r.bic
    ELSE LET e == Cubic_CwndEvent(pre.sock, pre.cubic, op.ev)
             r == IF op.rtt > 0
                  THEN Cubic_PktsAcked(e.sock, e.cubic, 1, op.rtt)
                  ELSE [sock |-> e.sock, cubic |-> e.cubic]
         IN  sock = r.sock /\ cubic = r.cubic

\* the window, the threshold, the phase and the segment size are as before
WindowFieldsKept ==
    /\ sock.cwnd_ = pre.sock.cwnd_
    /\ sock.ssthresh_ = pre.sock.ssthresh_
    /\ sock.tcp_state_ = pre.sock.tcp_state_
    /\ sock.mss_bytes_ = pre.sock.mss_bytes_

\* C33: CongControl applies the congestion event first and the RTT sample
\* second (as PktsAcked with exactly 1 segment, only when the sample is > 0),
\* and never grows the window: for an event other than PacketLoss, Timeout,
\* ECN and FastRecovery it leaves cwnd, ssthresh and phase unchanged and
\* changes only lastEvent, the RTT fields and the ACK/delay counters.
C33_CongControlFrame ==
    Did("CongControl") =>
        /\ EventThenSample
        /\ sock.cwnd_ <= pre.sock.cwnd_
        /\ op.ev = "Other" => WindowFieldsKept

-----------------------------------------------------------------------------
(* C34 *)

\* the window has come up to the threshold
ReachedSsthresh == sock.cwnd_ = sock.ssthresh_

\* an ACK of the stream that found the window at or above the threshold
DidAvoidanceAck == Did("IncreaseWindow") /\ ~(pre.sock.cwnd_ < pre.sock.ssthresh_)

\* C34: after a Timeout (cwnd = 1 x MSS, ssthresh = max(floor(beta x previous
\* cwnd), 2 x MSS) <= maxCwnd), a continuing stream of Acked events with n >= 1
\* segments and no further loss eventually brings cwnd to exactly ssthresh by
\* slow start without ever exceeding it on the way, after which every further
\* Acked event is handled by the congestion-avoidance rule.
C34_SlowStartReachesSsthresh ==
    /\ <>ReachedSsthresh
    /\ [](Did("IncreaseWindow") /\ pre.sock.cwnd_ < pre.sock.ssthresh_
            => sock.cwnd_ = SlowStartRule /\ sock.cwnd_ <= sock.ssthresh_)
    /\ [](ReachedSsthresh => [](sock.cwnd_ >= sock.ssthresh_))
    /\ [](DidAvoidanceAck => sock.cwnd_ \in AvoidanceRule /\ UpdateCounted)

\* the stream took more than two ACKs to bring the window up to the threshold
\* and has gone on by the congestion-avoidance rule since
C34_Witness ==
    /\ Did("IncreaseWindow")
    /\ DidAvoidanceAck
    /\ steps >= 4
    /\ pre.sock.ssthresh_ > 2 * MSS
    /\ sock.cwnd_ > sock.ssthresh_
    /\ sock.cwnd_ \in AvoidanceRule

-----------------------------------------------------------------------------
(* C35 *)

\* the run took the multipart path / the small-file path
TookMultipartPath == upload.pc \notin {"idle", "start"} /\ upload.totalSize >= MIN_PART_SIZE
TookSmallPath == upload.pc \notin {"idle", "start"} /\ upload.totalSize < MIN_PART_SIZE

\* the i-th request of the run
NthCall(i) == upload.calls[i]
CallCount == Len(upload.calls)

\* every request before the i-th succeeded
AllSucceededBefore(i) == \A j \in 1..(i - 1) : NthCall(j).ok

\* the requests so far are CreateMultipartUpload, then UploadPart for parts
\* 1, 2, ..., then at most one CompleteMultipartUpload, which comes last, after
\* successes only, and is handed the parts of the UploadPart requests
MultipartOrder ==
    \A i \in 1..CallCount :
        CASE i = 1 -> NthCall(i).call = "CreateMultipartUpload"
          [] NthCall(i).call = "UploadPart" -> NthCall(i).number = i - 1
          [] OTHER ->
               /\ NthCall(i).call = "CompleteMultipartUpload"
               /\ i = CallCount
               /\ AllSucceededBefore(i)
               /\ Len(NthCall(i).parts) = i - 2
               /\ \A k \in 1..(i - 2) :
                      /\ NthCall(i).parts[k].number = NthCall(k + 1).number
                      /\ NthCall(i).parts[k].size = NthCall(k + 1).size

\* a request that failed is the last one made and main() has returned 1
FailureEndsRun ==
    \A i \in 1..CallCount :
        ~NthCall(i).ok => i = CallCount /\ upload.pc = "done" /\ upload.status = 1

\* C35: in the streaming uploader, a file of size >= 5 MB is uploaded in the
\* order CreateMultipartUpload, then UploadPart for parts 1..n, then
\* CompleteMultipartUpload exactly once with those n parts;
\* CompleteMultipartUpload is never called unless the create call and every
\* UploadPart call succeeded, and any failed call ends the run with exit status
\* 1; a file smaller than 5 MB is uploaded with a single PutObject and no
\* multipart call.
C35_UploadCallOrder ==
    /\ FailureEndsRun
    /\ TookMultipartPath =>
          /\ MultipartOrder
          /\ upload.status = 0 =>
                /\ CallCount >= 2
                /\ NthCall(CallCount).call = "CompleteMultipartUpload"
                /\ NthCall(CallCount).ok
    /\ TookSmallPath =>
          /\ CallCount <= 1
          /\ \A i \in 1..CallCount : NthCall(i).call = "PutObject"
          /\ upload.status = 0 => CallCount = 1 /\ NthCall(1).ok

\* a run that completed a multipart upload of three parts
C35_Witness ==
    /\ TookMultipartPath
    /\ upload.status = 0
    /\ CallCount = 5
    /\ NthCall(5).call = "CompleteMultipartUpload"
    /\ Len(NthCall(5).parts) = 3

-----------------------------------------------------------------------------
(* C36 *)

\* the parts uploaded so far carry the numbers 1, 2, ... in upload order
PartsNumbered ==
    \A i \in 1..Len(upload.parts) : upload.parts[i].number = i

\* every uploaded part that was followed by another one holds 5 MB or more
AllButLastWhole ==
    \A i \in 1..(Len(upload.parts) - 1) : upload.parts[i].size >= MIN_PART_SIZE

PartBufferBounded == upload.partBuffer <= MIN_PART_SIZE + CHUNK_SIZE

\* C36: in the streaming uploader's multipart loop, parts are numbered
\* consecutively from 1 in upload order, every uploaded part except the last
\* one is at least 5 MB, and the in-memory part buffer never holds more than
\* 5 MB + 32 KB, for every file size >= 5 MB and every sequence of read sizes
\* of at most 32 KB.
C36_PartSizes ==
    TookMultipartPath => PartsNumbered /\ AllButLastWhole /\ PartBufferBounded

-----------------------------------------------------------------------------
(* C37 *)

RECURSIVE SumOfSizes(_)
SumOfSizes(ps) == IF ps = <<>> THEN 0 ELSE Head(ps).size + SumOfSizes(Tail(ps))

\* the uploaded parts lie end to end from offset 0 up to the last byte read
PartsTileBytesRead ==
    /\ \A i \in 1..Len(upload.parts) :
          upload.parts[i].first = SumOfSizes(SubSeq(upload.parts, 1, i - 1))
    /\ SumOfSizes(upload.parts) = upload.totalRead

\* the read loop has ended on the multipart path: CompleteMultipartUpload is
\* about to be called or has been called
LoopEnded ==
    /\ TookMultipartPath
    /\ \/ upload.pc = "complete"
       \/ CallCount > 0 /\ NthCall(CallCount).call = "CompleteMultipartUpload"

\* C37: in the streaming uploader's multipart path, when the read loop ends
\* the part buffer is empty and the sizes of the uploaded parts sum to the
\* number of bytes read, so every byte read from the file is contained in
\* exactly one uploaded part before CompleteMultipartUpload is called, also
\* when the number of bytes actually read differs from the size measured
\* before the loop.
C37_EveryByteUploaded ==
    LoopEnded => upload.partBuffer = 0 /\ PartsTileBytesRead

=============================================================================
